---- MODULE Spec2Model ----
(***************************************************************************)
(* Model of the build-element composite of OnTrack                         *)
(* (src/Application_Files/body.py) and of the Build Manager operations of   *)
(* src/face.py that drive it.                                               *)
(*                                                                          *)
(* A build element is a record: cid (class id), container (a sequence of    *)
(* child elements, or of at most one data tuple for Quantity and Session)   *)
(* and the attributes of its class.  Python lists are sequences, so the     *)
(* Python index k is the index k + 1 here.                                  *)
(*                                                                          *)
(* Numbers entered by the user are integers; the float arithmetic of the    *)
(* aggregation methods is modelled by exact rationals <<n, d>>.             *)
(* A str that the code formats or parses (dates, times) is a sequence of    *)
(* one-character strings; descriptions, units and ids are atomic strings.   *)
(***************************************************************************)
EXTENDS Integers, Sequences, FiniteSets, TLC

NoObject == 0

VARIABLES
  build,       \* the Build Parent of the Build Viewer, NoElement without one
  copied_element,  \* the copy the Copied Viewer shows, NoElement without one
  references,  \* the reference items of the user, in the order they were added
  imported,    \* the outcome of the last load_data_capsule of one capsule
  objects,     \* the build element objects alive: id -> class id and container of ids
  viewer,      \* the ids of the Build Parent and of the copied element, NoObject for None
  ureco,       \* the record inventories: class id -> date -> record state
  utemp,       \* the template inventory of one class id: template id -> state
  templateobjects  \* template id -> the object built from the template state

vars == <<build, copied_element, references, imported, objects, viewer,
          ureco, utemp, templateobjects>>

\* the variables of the record and template inventories
stores == <<ureco, utemp, templateobjects>>

\* the variables of the build element objects
heap == <<objects, viewer>>

\* the variables of the reference inventories
inventory == <<references, imported>>

(***************************************************************************)
(* Bounds and input domains                                                 *)
(***************************************************************************)
MaxNodes == 4

\* Python's None, a sequence like every formatted str so that the two compare.
None == <<"None">>

\* the dates datetime.datetime.now() returns
Todays == {<<2018, 11, 30>>}
\* the [amount, unit] and [effort, intensity, note] tuples entered
PortionSizes == {<<2, "g">>, <<1, "cup">>, <<3, "tbsp">>}
Measurements == {<<5, 100, "">>, <<3, 150, "">>}
\* the description and the scalar attribute entered in InputBuildElement
EditChoices ==
  [cid \in {"R", "M", "D", "W", "C", "P"} |->
     CASE cid = "R" -> {<<"Pie", <<3, 2, "slice">> >>}
       [] cid = "M" -> {<<"Lunch", <<7, 45>> >>}
       [] cid = "D" -> {<<"Cut", <<2017, 3, 9>> >>}
       [] cid = "W" -> {<<"Push", << <<2017, 3, 9, 18, 30>>, <<2017, 3, 9, 19, 45>> >> >>}
       [] cid = "C" -> {<<"Week 1", None>>}
       [] cid = "P" -> {<<"Bulk", <<2017, 3, 9>> >>}]
ResultsTypes == {"effort", "intensity", "magnitude"}
ExerciseProperties == {"itemid", "focusmuscle", "tags"}

\* build_element returning None; an item_id argument of None; no exception raised
NoElement == [cid |-> "none"]
NoneId == "None"
NoExc == "none"

(***************************************************************************)
(* Reference dictionaries (BuildCenter._fdref, _fnref, _edref)              *)
(***************************************************************************)
FoodIds == {"F1", "F2"}
ExerciseIds == {"E1", "E2"}
NutrientIds == {"203", "204", "205"}

\* item id -> [description, group id, unit sequences [amount, unit, weight]]
fdref ==
  [id \in FoodIds |->
     IF id = "F1"
     THEN <<"Milk", "0100", << <<1, "cup", 240>>, <<2, "tbsp", 30>>, <<3, "cup", 100>> >> >>
     ELSE <<"Bread", "1800", << <<2, "slice", 50>> >> >>]

\* item id -> nutrient id -> value for 100 g (a missing key is a missing entry)
fnref ==
  [id \in FoodIds |->
     IF id = "F1" THEN [n \in {"203", "204"} |-> IF n = "203" THEN 10 ELSE 4]
                  ELSE [n \in {"203", "205"} |-> IF n = "203" THEN 3 ELSE 7]]

\* item id -> [description, focus muscle, [units], [tags]]
edref ==
  [id \in ExerciseIds |->
     IF id = "E1" THEN <<"Bench Press", "Chest", <<"rep", "lb">>, <<"push", "barbell">> >>
                  ELSE <<"Squat", "Quadriceps", <<"rep", "lb">>, <<"barbell">> >>]

(***************************************************************************)
(* Rational arithmetic standing for Python float arithmetic                 *)
(***************************************************************************)
Abs(i) == IF i < 0 THEN -i ELSE i

RECURSIVE GCD(_, _)
GCD(a, b) == IF b = 0 THEN a ELSE GCD(b, a % b)

Rat(n, d) ==
  LET g == GCD(Abs(n), Abs(d))
      s == IF d < 0 THEN -1 ELSE 1
  IN  <<(s * n) \div g, (s * d) \div g>>

Zero == <<0, 1>>
FromInt(i) == <<i, 1>>
RAdd(a, b) == Rat(a[1] * b[2] + b[1] * a[2], a[2] * b[2])
RMul(a, b) == Rat(a[1] * b[1], a[2] * b[2])
RDiv(a, b) == Rat(a[1] * b[2], a[2] * b[1])
RGreater(a, b) == a[1] * b[2] > b[1] * a[2]

(***************************************************************************)
(* datetime: strftime and strptime                                          *)
(* A date is <<year, month, day>>, a time <<hour, minute>>, a datetime      *)
(* <<year, month, day, hour, minute>>.                                      *)
(***************************************************************************)
DigitChars == <<"0", "1", "2", "3", "4", "5", "6", "7", "8", "9">>

IsDigit(c) == \E i \in 1..10 : DigitChars[i] = c
DigitValue(c) == (CHOOSE i \in 1..10 : DigitChars[i] = c) - 1

Pad2(i) == <<DigitChars[((i \div 10) % 10) + 1], DigitChars[(i % 10) + 1]>>
Pad4(i) == Pad2(i \div 100) \o Pad2(i % 100)

AllDigits(s) == \A i \in 1..Len(s) : IsDigit(s[i])

RECURSIVE Number(_)
Number(s) == IF s = <<>> THEN 0
             ELSE 10 * Number(SubSeq(s, 1, Len(s) - 1)) + DigitValue(s[Len(s)])

IsLeap(y) == (y % 4 = 0 /\ y % 100 # 0) \/ y % 400 = 0
DaysIn(y, m) == IF m = 2 THEN (IF IsLeap(y) THEN 29 ELSE 28)
                ELSE IF m \in {4, 6, 9, 11} THEN 30 ELSE 31

strftime_date(d) == Pad4(d[1]) \o <<"-">> \o Pad2(d[2]) \o <<"-">> \o Pad2(d[3])
strftime_time(t) == Pad2(t[1]) \o <<":">> \o Pad2(t[2])
strftime_datetime(dt) ==
  strftime_date(<<dt[1], dt[2], dt[3]>>) \o <<" ">> \o strftime_time(<<dt[4], dt[5]>>)

\* strptime accepts one- or two-digit fields; the result is the parsed value
\* or "ValueError".
ValueError == <<"ValueError">>

ParseField(s, lo, hi) ==
  IF Len(s) \in {1, 2} /\ AllDigits(s) /\ Number(s) \in lo..hi
  THEN Number(s) ELSE -1

\* the index of the first separator c in s, 0 when there is none
FirstIndex(s, c) ==
  IF \E i \in 1..Len(s) : s[i] = c
  THEN CHOOSE i \in 1..Len(s) : s[i] = c /\ \A j \in 1..(i - 1) : s[j] # c
  ELSE 0

strptime_time(s) ==
  LET k == FirstIndex(s, ":")
  IN  IF k = 0 THEN ValueError
      ELSE LET h == ParseField(SubSeq(s, 1, k - 1), 0, 23)
               m == ParseField(SubSeq(s, k + 1, Len(s)), 0, 59)
           IN  IF h < 0 \/ m < 0 THEN ValueError ELSE <<h, m>>

strptime_date(s) ==
  LET k1 == FirstIndex(s, "-")
      rest == SubSeq(s, k1 + 1, Len(s))
      k2 == FirstIndex(rest, "-")
  IN  IF k1 # 5 \/ k2 = 0 \/ ~AllDigits(SubSeq(s, 1, 4)) THEN ValueError
      ELSE LET y == Number(SubSeq(s, 1, 4))
               m == ParseField(SubSeq(rest, 1, k2 - 1), 1, 12)
               d == IF m < 0 THEN -1
                    ELSE ParseField(SubSeq(rest, k2 + 1, Len(rest)), 1, DaysIn(y, m))
           IN  IF y < 1 \/ m < 0 \/ d < 0 THEN ValueError ELSE <<y, m, d>>

strptime_datetime(s) ==
  LET k == FirstIndex(s, " ")
  IN  IF k = 0 THEN ValueError
      ELSE LET d == strptime_date(SubSeq(s, 1, k - 1))
               t == strptime_time(SubSeq(s, k + 1, Len(s)))
           IN  IF d = ValueError \/ t = ValueError THEN ValueError
               ELSE <<d[1], d[2], d[3], t[1], t[2]>>

(***************************************************************************)
(* Dictionaries: a Python dict is a function; {} is the empty function.     *)
(***************************************************************************)
EmptyDict == <<>>

\* a summed_dicts that keeps the value of the later dictionary
summed_dicts_overwriting(a, b) ==
  [k \in (DOMAIN a) \cup (DOMAIN b) |-> IF k \in DOMAIN b THEN b[k] ELSE a[k]]

\* organs.summed_dicts on two int-valued dictionaries
summed_dicts(a, b) ==
  [k \in (DOMAIN a) \cup (DOMAIN b) |->
     (IF k \in DOMAIN a THEN a[k] ELSE 0) + (IF k \in DOMAIN b THEN b[k] ELSE 0)]

\* organs.summed_dicts on two dictionaries of float values
summed_floats(a, b) ==
  [k \in (DOMAIN a) \cup (DOMAIN b) |->
     RAdd(IF k \in DOMAIN a THEN a[k] ELSE Zero, IF k \in DOMAIN b THEN b[k] ELSE Zero)]

\* a maxed_dicts that keeps the value of the first dictionary with the key
maxed_dicts_first(a, b) ==
  [k \in (DOMAIN a) \cup (DOMAIN b) |-> IF k \in DOMAIN a THEN a[k] ELSE b[k]]

\* organs.maxed_dicts on two dictionaries
maxed_dicts(a, b) ==
  [k \in (DOMAIN a) \cup (DOMAIN b) |->
     IF k \notin DOMAIN a THEN b[k]
     ELSE IF k \notin DOMAIN b THEN a[k]
     ELSE IF b[k] > a[k] THEN b[k] ELSE a[k]]

\* an update that keeps the value a key already has
dict_update_keeping(a, b) ==
  [k \in (DOMAIN a) \cup (DOMAIN b) |-> IF k \in DOMAIN a THEN a[k] ELSE b[k]]

\* dict.update
dict_update(a, b) ==
  [k \in (DOMAIN a) \cup (DOMAIN b) |-> IF k \in DOMAIN b THEN b[k] ELSE a[k]]

(***************************************************************************)
(* Constructors (the __init__ of each class) and the factory                *)
(* today is the date datetime.datetime.now() returns during the call.       *)
(***************************************************************************)
Quantity(item_id) == [cid |-> "Q", container |-> <<>>, itemid |-> item_id]
Ingredient(item_id) == [cid |-> "I", container |-> <<>>, itemid |-> item_id]
Recipe == [cid |-> "R", container |-> <<>>, description |-> "(unnamed)",
           portion |-> <<1, 1, "piece">>]
Meal == [cid |-> "M", container |-> <<>>, description |-> "(unnamed)", time |-> <<0, 0>>]
Diet(today) == [cid |-> "D", container |-> <<>>, description |-> "(unnamed)", date |-> today]
Session(item_id) == [cid |-> "S", container |-> <<>>, itemid |-> item_id]
Activity(item_id) == [cid |-> "A", container |-> <<>>, itemid |-> item_id]
Workout(today) ==
  [cid |-> "W", container |-> <<>>, description |-> "(unnamed)",
   period |-> << <<today[1], today[2], today[3], 0, 0>>,
                 <<today[1], today[2], today[3], 1, 0>> >>]
Cycle == [cid |-> "C", container |-> <<>>, description |-> "(unnamed)"]
Program(today) == [cid |-> "P", container |-> <<>>, description |-> "(unnamed)", start |-> today]

\* a factory that asks an item id of the Ingredient and the Activity only
build_element_items(cid, item_id, today) ==
  IF cid \in {"I", "A"} /\ item_id = NoneId THEN NoElement
  ELSE CASE cid = "Q" -> Quantity(item_id)
         [] cid = "I" -> Ingredient(item_id)
         [] cid = "S" -> Session(item_id)
         [] cid = "A" -> Activity(item_id)
         [] cid = "R" -> Recipe
         [] cid = "M" -> Meal
         [] cid = "D" -> Diet(today)
         [] cid = "W" -> Workout(today)
         [] cid = "C" -> Cycle
         [] cid = "P" -> Program(today)
         [] OTHER -> NoElement

build_element(cid, item_id, today) ==
  IF cid \in {"Q", "I", "S", "A"} /\ item_id = NoneId THEN NoElement
  ELSE CASE cid = "Q" -> Quantity(item_id)
         [] cid = "I" -> Ingredient(item_id)
         [] cid = "R" -> Recipe
         [] cid = "M" -> Meal
         [] cid = "D" -> Diet(today)
         [] cid = "S" -> Session(item_id)
         [] cid = "A" -> Activity(item_id)
         [] cid = "W" -> Workout(today)
         [] cid = "C" -> Cycle
         [] cid = "P" -> Program(today)
         [] OTHER -> NoElement

\* dna.BUILD_ELEMENTS: the child class ids of each class id
BUILD_ELEMENTS ==
  [c \in {"Q", "I", "R", "M", "D", "S", "A", "W", "C", "P"} |->
     CASE c = "I" -> <<"Q">>
       [] c = "R" -> <<"R", "I">>
       [] c = "M" -> <<"R", "I">>
       [] c = "D" -> <<"M">>
       [] c = "A" -> <<"S">>
       [] c = "W" -> <<"A">>
       [] c = "C" -> <<"W">>
       [] c = "P" -> <<"C">>
       [] OTHER -> <<>>]

(***************************************************************************)
(* BuildCenter: the container                                               *)
(***************************************************************************)
\* a clear_container that leaves the children in place
clear_container_kept(n) == n
clear_container(n) == [n EXCEPT !.container = <<>>]

\* an add_child that Quantity and Session do not override
add_child_appending(n, child) == [n EXCEPT !.container = Append(@, child)]

\* BuildCenter.add_child, and the override of Quantity and Session that
\* clears the container first
add_child(n, child) ==
  IF n.cid \in {"Q", "S"}
  THEN [n EXCEPT !.container = <<child>>]
  ELSE [n EXCEPT !.container = Append(@, child)]

RemoveAt(seq, i) == SubSeq(seq, 1, i - 1) \o SubSeq(seq, i + 1, Len(seq))
InsertAt(seq, i, e) == SubSeq(seq, 1, i - 1) \o <<e>> \o SubSeq(seq, i, Len(seq))

\* a move that inserts the child at its new index before it pops it
move_child_inserting_first(n, i, direction) ==
  [n EXCEPT !.container = RemoveAt(InsertAt(@, i + direction, n.container[i]), i)]

\* the child is named by its index (list.index finds it by identity)
move_child(n, i, direction) ==
  [n EXCEPT !.container = InsertAt(RemoveAt(@, i), i + direction, n.container[i])]

remove_child(n, i) == [n EXCEPT !.container = RemoveAt(@, i)]

Front(seq) == SubSeq(seq, 1, Len(seq) - 1)
Last(seq) == seq[Len(seq)]
ButLast(n) == [n EXCEPT !.container = Front(@)]

(***************************************************************************)
(* Nutrition build elements: aggregation                                    *)
(***************************************************************************)
RECURSIVE macro_weights(_), nutrient_value(_, _), unique_foods(_)

\* Quantity.amount, Quantity.unit
amount(q) == IF q.container # <<>> THEN q.container[1][1] ELSE 0
unit(q) == IF q.container # <<>> THEN q.container[1][2] ELSE "no unit"

\* the for loop of Quantity.weight over the unit sequences, from the first
RECURSIVE scan_sequences(_, _, _)
scan_sequences(sequences, amt, unt) ==
  IF sequences = <<>> THEN Zero
  ELSE IF Head(sequences)[2] = unt
       THEN RMul(RDiv(FromInt(amt), FromInt(Head(sequences)[1])),
                 FromInt(Head(sequences)[3]))
       ELSE scan_sequences(Tail(sequences), amt, unt)

\* a weight that takes the last unit sequence with the unit, not the first
weight_last_match(q) ==
  IF amount(q) = 0 THEN Zero
  ELSE IF unit(q) = "g" THEN FromInt(amount(q))
  ELSE LET sequences == fdref[q.itemid][3]
       IN  scan_sequences([i \in 1..Len(sequences) |-> sequences[Len(sequences) + 1 - i]],
                          amount(q), unit(q))
weight(q) ==
  IF amount(q) = 0 THEN Zero
  ELSE IF unit(q) = "g" THEN FromInt(amount(q))
  ELSE scan_sequences(fdref[q.itemid][3], amount(q), unit(q))

\* weight() raises KeyError when it looks up an item id fdref does not hold
weight_raises(q) == amount(q) # 0 /\ unit(q) # "g" /\ q.itemid \notin DOMAIN fdref

\* a nutrient value per gram, not per 100 grams
Quantity_nutrient_value_per_gram(q, nutrient_id) ==
  IF q.itemid \in DOMAIN fnref /\ nutrient_id \in DOMAIN fnref[q.itemid]
     /\ ~weight_raises(q)
  THEN RMul(weight(q), FromInt(fnref[q.itemid][nutrient_id]))
  ELSE Zero
Quantity_nutrient_value(q, nutrient_id) ==
  IF q.itemid \in DOMAIN fnref /\ nutrient_id \in DOMAIN fnref[q.itemid]
     /\ ~weight_raises(q)
  THEN RMul(RDiv(weight(q), FromInt(100)), FromInt(fnref[q.itemid][nutrient_id]))
  ELSE Zero

Quantity_macro_weights(q) ==
  [nutrient_id \in {"203", "204", "205"} |-> Quantity_nutrient_value(q, nutrient_id)]

RECURSIVE Lunchbox_macro_weights(_)
Lunchbox_macro_weights(n) ==
  IF n.container = <<>> THEN [nutrient_id \in {"203", "204", "205"} |-> Zero]
  ELSE summed_floats(Lunchbox_macro_weights(ButLast(n)), macro_weights(Last(n.container)))

RECURSIVE Lunchbox_nutrient_value(_, _)
Lunchbox_nutrient_value(n, nutrient_id) ==
  IF n.container = <<>> THEN Zero
  ELSE RAdd(Lunchbox_nutrient_value(ButLast(n), nutrient_id),
            nutrient_value(Last(n.container), nutrient_id))

RECURSIVE Lunchbox_unique_foods(_)
Lunchbox_unique_foods(n) ==
  IF n.container = <<>> THEN {}
  ELSE Lunchbox_unique_foods(ButLast(n)) \cup unique_foods(Last(n.container))

\* Recipe.consumed, Recipe.prepared
consumed(r) == r.portion[1]
prepared(r) == r.portion[2]

\* macro weights scaled by prepared / consumed
Recipe_macro_weights_inverted(r) ==
  LET total_macro_weights == Lunchbox_macro_weights(r)
      multiplier == RDiv(FromInt(prepared(r)), FromInt(consumed(r)))
  IN  [macro_id \in DOMAIN total_macro_weights |->
         RMul(total_macro_weights[macro_id], multiplier)]
Recipe_macro_weights(r) ==
  LET total_macro_weights == Lunchbox_macro_weights(r)
      multiplier == RDiv(FromInt(consumed(r)), FromInt(prepared(r)))
  IN  [macro_id \in DOMAIN total_macro_weights |->
         RMul(total_macro_weights[macro_id], multiplier)]

Recipe_nutrient_value(r, nutrient_id) ==
  LET multiplier == RDiv(FromInt(consumed(r)), FromInt(prepared(r)))
  IN  RMul(Lunchbox_nutrient_value(r, nutrient_id), multiplier)

\* method resolution: the override of the class, or the Lunchbox method
macro_weights(n) ==
  CASE n.cid = "Q" -> Quantity_macro_weights(n)
    [] n.cid = "R" -> Recipe_macro_weights(n)
    [] OTHER -> Lunchbox_macro_weights(n)

nutrient_value(n, nutrient_id) ==
  CASE n.cid = "Q" -> Quantity_nutrient_value(n, nutrient_id)
    [] n.cid = "R" -> Recipe_nutrient_value(n, nutrient_id)
    [] OTHER -> Lunchbox_nutrient_value(n, nutrient_id)

\* the exception that macro_weights or nutrient_value raises, or NoExc:
\* Quantity.nutrient_value handles its KeyError; Recipe.macro_weights calls
\* Lunchbox.macro_weights and then divides by float(prepared), and
\* Recipe.nutrient_value divides first; the Lunchbox methods call the method
\* of every child in turn
RECURSIVE raised_by(_, _)
RECURSIVE raised_by_children(_, _)
raised_by_children(children, method) ==
  IF children = <<>> THEN NoExc
  ELSE IF raised_by(Head(children), method) # NoExc
       THEN raised_by(Head(children), method)
       ELSE raised_by_children(Tail(children), method)

raised_by(n, method) ==
  CASE n.cid = "Q" -> NoExc
    [] n.cid = "R" ->
         LET division == IF prepared(n) = 0 THEN "ZeroDivisionError" ELSE NoExc
             total == raised_by_children(n.container, method)
         IN  IF method = "macro_weights"
             THEN IF total # NoExc THEN total ELSE division
             ELSE IF division # NoExc THEN division ELSE total
    [] OTHER -> raised_by_children(n.container, method)

unique_foods(n) ==
  IF n.cid \in {"Q", "I"} THEN {n.itemid} ELSE Lunchbox_unique_foods(n)

(***************************************************************************)
(* Fitness build elements: aggregation                                      *)
(***************************************************************************)
RECURSIVE muscle_sessions(_), performance_results(_, _, _)

\* Session.effort, Session.intensity, Session.note, Session.magnitude
effort(ses) == IF ses.container # <<>> THEN ses.container[1][1] ELSE 0
intensity(ses) == IF ses.container # <<>> THEN ses.container[1][2] ELSE 0
note(ses) == IF ses.container # <<>> THEN ses.container[1][3] ELSE ""
magnitude(ses) == effort(ses) * intensity(ses)

\* Session.focusmuscle / Activity.focusmuscle, Session.tags / Activity.tags
focusmuscle(n) == edref[n.itemid][2]
tags(n) == edref[n.itemid][4]

SeqRange(seq) == {seq[i] : i \in 1..Len(seq)}

\* getattr(session, results_type)()
session_result(ses, results_type) ==
  CASE results_type = "effort" -> effort(ses)
    [] results_type = "intensity" -> intensity(ses)
    [] results_type = "magnitude" -> magnitude(ses)

\* the keys of getattr(self, exercise_property)() of a Session or Activity
property_keys(n, exercise_property) ==
  CASE exercise_property = "itemid" -> {n.itemid}
    [] exercise_property = "focusmuscle" -> {focusmuscle(n)}
    [] exercise_property = "tags" -> SeqRange(tags(n))

\* a Session that counts only when it holds data
Session_muscle_sessions_with_data(ses) ==
  IF ses.container # <<>> THEN [key \in {focusmuscle(ses)} |-> 1] ELSE EmptyDict

Session_muscle_sessions(ses) == [key \in {focusmuscle(ses)} |-> 1]

Session_performance_results(ses, results_type, exercise_property) ==
  IF ses.container = <<>> THEN EmptyDict
  ELSE [key \in property_keys(ses, exercise_property) |->
          session_result(ses, results_type)]

Activity_muscle_sessions(act) ==
  IF act.container # <<>>
  THEN [key \in {focusmuscle(act)} |-> Len(act.container)]
  ELSE EmptyDict

\* the for loop of Activity.performance_results over the child Sessions
RECURSIVE activity_performance(_, _)
activity_performance(sessions, results_type) ==
  IF sessions = <<>> THEN 0
  ELSE LET performance == activity_performance(Front(sessions), results_type)
           session == Last(sessions)
       IN  IF results_type \in {"effort", "magnitude"}
           THEN performance + session_result(session, results_type)
           ELSE IF results_type = "intensity" /\ intensity(session) > performance
                THEN intensity(session)
                ELSE performance

\* an Activity that returns no results unless a Session of it holds data
Activity_performance_results_with_data(act, results_type, exercise_property) ==
  IF \A i \in 1..Len(act.container) : act.container[i].container = <<>>
  THEN EmptyDict
  ELSE [key \in property_keys(act, exercise_property) |->
          activity_performance(act.container, results_type)]

Activity_performance_results(act, results_type, exercise_property) ==
  IF act.container = <<>> THEN EmptyDict
  ELSE [key \in property_keys(act, exercise_property) |->
          activity_performance(act.container, results_type)]

\* Workout.began, Workout.ended
began(w) == w.period[1]
ended(w) == w.period[2]

\* the for loop of Workout.performance_results over the child Activities
RECURSIVE workout_performance(_, _, _)
workout_performance(activities, results_type, exercise_property) ==
  IF activities = <<>> THEN EmptyDict
  ELSE LET performance ==
             workout_performance(Front(activities), results_type, exercise_property)
           act_performance ==
             performance_results(Last(activities), results_type, exercise_property)
       IN  IF results_type \in {"effort", "magnitude"}
           THEN summed_dicts(performance, act_performance)
           ELSE IF results_type = "intensity"
                THEN maxed_dicts(performance, act_performance)
                ELSE performance

\* a Workout that files its results under its timestamp even when there
\* are none
Workout_performance_results_keyed(w, results_type, exercise_property) ==
  [key \in {strftime_datetime(began(w))} |->
     workout_performance(w.container, results_type, exercise_property)]

Workout_performance_results(w, results_type, exercise_property) ==
  LET performance == workout_performance(w.container, results_type, exercise_property)
      began_string == strftime_datetime(began(w))
  IN  IF DOMAIN performance # {}
      THEN [key \in {began_string} |-> performance]
      ELSE EmptyDict

RECURSIVE Gymbag_muscle_sessions(_)
Gymbag_muscle_sessions(n) ==
  IF n.container = <<>> THEN EmptyDict
  ELSE summed_dicts(Gymbag_muscle_sessions(ButLast(n)), muscle_sessions(Last(n.container)))

RECURSIVE Gymbag_performance_results(_, _, _)
Gymbag_performance_results(n, results_type, exercise_property) ==
  IF n.container = <<>> THEN EmptyDict
  ELSE dict_update(
         Gymbag_performance_results(ButLast(n), results_type, exercise_property),
         performance_results(Last(n.container), results_type, exercise_property))

muscle_sessions(n) ==
  CASE n.cid = "S" -> Session_muscle_sessions(n)
    [] n.cid = "A" -> Activity_muscle_sessions(n)
    [] OTHER -> Gymbag_muscle_sessions(n)

performance_results(n, results_type, exercise_property) ==
  CASE n.cid = "S" -> Session_performance_results(n, results_type, exercise_property)
    [] n.cid = "A" -> Activity_performance_results(n, results_type, exercise_property)
    [] n.cid = "W" -> Workout_performance_results(n, results_type, exercise_property)
    [] OTHER -> Gymbag_performance_results(n, results_type, exercise_property)

\* whether a query raises KeyError on an element.  Quantity.weight looks the
\* item id up in fdref when the amount is not 0 and the unit is not 'g';
\* Quantity.nutrient_value handles the KeyError of its lookups, and
\* Quantity.macro_weights calls it; Session and Activity look the item id up
\* in edref in focusmuscle() and tags(), Session.performance_results after
\* it returns {} for an empty container, and Activity.muscle_sessions and
\* Activity.performance_results when the container is not empty; the other
\* classes call the method of their children.  performance_results stands
\* for the results keyed by focus muscle or by tags.
RECURSIVE key_fault_unhandled(_, _)
key_fault_unhandled(n, query) ==
  CASE n.cid = "Q" ->
         \/ query = "weight" /\ weight_raises(n)
         \/ query \in {"nutrient_value", "macro_weights"}
              /\ (n.itemid \notin DOMAIN fnref \/ weight_raises(n))
    [] n.cid = "S" ->
         /\ n.itemid \notin DOMAIN edref
         /\ query = "performance_results" => n.container # <<>>
    [] n.cid = "A" ->
         /\ n.itemid \notin DOMAIN edref
         /\ query \in {"muscle_sessions", "performance_results"} => n.container # <<>>
    [] OTHER ->
         \E i \in 1..Len(n.container) : key_fault_unhandled(n.container[i], query)

RECURSIVE key_fault(_, _)
key_fault(n, query) ==
  CASE n.cid = "Q" -> query = "weight" /\ weight_raises(n)
    [] n.cid = "S" ->
         /\ n.itemid \notin DOMAIN edref
         /\ query = "performance_results" => n.container # <<>>
    [] n.cid = "A" ->
         /\ n.itemid \notin DOMAIN edref
         /\ query \in {"muscle_sessions", "performance_results"} => n.container # <<>>
    [] OTHER ->
         \E i \in 1..Len(n.container) : key_fault(n.container[i], query)

(***************************************************************************)
(* state(), set_state() and template_state()                                *)
(* A state list is a tuple.  set_state yields the element as the call       *)
(* leaves it and the exception the call raised, NoExc when it returned.     *)
(***************************************************************************)
RECURSIVE state(_), set_state(_, _, _), template_state(_)

Returned(n) == [node |-> n, exc |-> NoExc]
Raised(n, e) == [node |-> n, exc |-> e]

AttributeError == <<"AttributeError">>

\* the outcome of a query that returns a boolean or raises
Answered(b) == [value |-> b, exc |-> NoExc]
Faulted(e) == [value |-> FALSE, exc |-> e]

\* the classes that override a has_ method to return True
HasOverride ==
  [has_ingredient |-> "I", has_quantity |-> "Q", has_activity |-> "A", has_session |-> "S"]

\* Lunchbox.has_ingredient / has_quantity and Gymbag.has_activity /
\* has_session with the overrides of Ingredient, Quantity, Activity and
\* Session: the for loop calls the method on every member of the container,
\* and the member of the container of a Quantity or Session is a data list,
\* which has no such method
RECURSIVE has(_, _)
RECURSIVE children_have(_, _, _)
children_have(children, method, data) ==
  IF children = <<>> THEN Answered(FALSE)
  ELSE IF data THEN Faulted("AttributeError")
  ELSE LET child == has(Head(children), method)
       IN  IF child.exc # NoExc \/ child.value THEN child
           ELSE children_have(Tail(children), method, data)

has(n, method) ==
  IF n.cid = HasOverride[method] THEN Answered(TRUE)
  ELSE children_have(n.container, method, n.cid \in {"Q", "S"})

has_ingredient(n) == has(n, "has_ingredient")
has_quantity(n) == has(n, "has_quantity")
has_activity(n) == has(n, "has_activity")
has_session(n) == has(n, "has_session")

child_states(n) == [i \in 1..Len(n.container) |-> state(n.container[i])]
child_template_states(n) == [i \in 1..Len(n.container) |-> template_state(n.container[i])]

\* the child object a set_state loop constructs for one child state
fresh_child(parent, child_state, today) ==
  CASE parent.cid = "I" -> Quantity(parent.itemid)
    [] parent.cid \in {"R", "M"} ->
         build_element(child_state[1],
                       IF child_state[1] = "R" THEN NoneId ELSE child_state[3], today)
    [] parent.cid = "D" -> Meal
    [] parent.cid = "A" -> Session(parent.itemid)
    [] parent.cid = "W" -> Activity(child_state[3])
    [] parent.cid = "C" -> Workout(today)
    [] parent.cid = "P" -> Cycle

\* a loop over the child states that leaves the container as it was when a
\* child state fails
RECURSIVE rebuild_container_or_keep(_, _, _)
rebuild_container_or_keep(parent, states, today) ==
  IF states = <<>> THEN Returned(clear_container(parent))
  ELSE LET done == rebuild_container_or_keep(parent, Front(states), today)
       IN  IF done.exc # NoExc THEN done
           ELSE LET child_object == fresh_child(parent, Last(states), today)
                    child == IF child_object = NoElement
                             THEN Raised(child_object, "AttributeError")
                             ELSE set_state(child_object, Last(states), today)
                IN  IF child.exc # NoExc THEN Raised(parent, child.exc)
                    ELSE Returned(add_child(done.node, child.node))

\* clear_container() and the for loop of set_state over the child states:
\* each child is added after its own set_state returned
RECURSIVE rebuild_container(_, _, _)
rebuild_container(parent, states, today) ==
  IF states = <<>> THEN Returned(clear_container(parent))
  ELSE LET done == rebuild_container(parent, Front(states), today)
       IN  IF done.exc # NoExc THEN done
           ELSE LET child_object == fresh_child(parent, Last(states), today)
                    child == IF child_object = NoElement
                             THEN Raised(child_object, "AttributeError")
                             ELSE set_state(child_object, Last(states), today)
                IN  IF child.exc # NoExc THEN Raised(done.node, child.exc)
                    ELSE Returned(add_child(done.node, child.node))

\* a Quantity set_state that refuses the state of another class
Quantity_set_state_checked(q, new_state) ==
  IF new_state[1] # "Q" THEN Raised(q, "ValueError")
  ELSE Returned(add_child(q, Tail(new_state)))
Quantity_set_state(q, new_state) == Returned(add_child(q, Tail(new_state)))
Quantity_state(q) == <<"Q", amount(q), unit(q)>>

\* new_state[index] of a list too short for it raises IndexError; a set_state
\* has cleared the container before it reads new_state[1]
Lacks(new_state, index) == Len(new_state) < index + 1
rebuilt(n, new_state, today) ==
  IF Lacks(new_state, 1) THEN Raised(clear_container(n), "IndexError")
  ELSE rebuild_container(n, new_state[2], today)

Ingredient_set_state(ing, new_state, today) == rebuilt(ing, new_state, today)
Ingredient_state(ing) == <<"I", child_states(ing), ing.itemid>>

\* a Recipe that refuses a portion of which nothing was prepared
Recipe_set_state_validated(r, new_state, today) ==
  LET done == rebuilt(r, new_state, today)
  IN  IF done.exc # NoExc THEN done
      ELSE IF Lacks(new_state, 2) THEN Raised(done.node, "IndexError")
      ELSE IF Lacks(new_state, 3)
           THEN Raised([done.node EXCEPT !.description = new_state[3]], "IndexError")
      ELSE IF new_state[4][2] = 0
           THEN Raised([done.node EXCEPT !.description = new_state[3]], "ValueError")
      ELSE Returned([done.node EXCEPT !.description = new_state[3],
                                      !.portion = new_state[4]])

Recipe_set_state(r, new_state, today) ==
  LET done == rebuilt(r, new_state, today)
  IN  IF done.exc # NoExc THEN done
      ELSE IF Lacks(new_state, 2) THEN Raised(done.node, "IndexError")
      ELSE IF Lacks(new_state, 3)
           THEN Raised([done.node EXCEPT !.description = new_state[3]], "IndexError")
      ELSE Returned([done.node EXCEPT !.description = new_state[3],
                                      !.portion = new_state[4]])
Recipe_state(r) == <<"R", child_states(r), r.description, r.portion>>
\* a Recipe template that resets the portion
Recipe_template_state_reset(r) == <<"R", child_states(r), r.description, Recipe.portion>>
Recipe_template_state(r) == Recipe_state(r)

Meal_set_state(m, new_state, today) ==
  LET done == rebuilt(m, new_state, today)
      described == [done.node EXCEPT !.description = new_state[3]]
      new_time == strptime_time(new_state[4])
  IN  IF done.exc # NoExc THEN done
      ELSE IF Lacks(new_state, 2) THEN Raised(done.node, "IndexError")
      ELSE IF Lacks(new_state, 3) THEN Raised(described, "IndexError")
      ELSE IF new_time = ValueError THEN Raised(described, "ValueError")
      ELSE Returned([described EXCEPT !.time = new_time])
Meal_state(m) == <<"M", child_states(m), m.description, strftime_time(m.time)>>
\* a Meal template that keeps the time
Meal_template_state_timed(m) == Meal_state(m)
Meal_template_state(m) == SubSeq(Meal_state(m), 1, 3) \o << <<"0", "0", ":", "0", "0">> >>

Diet_set_state(d, new_state, today) ==
  LET done == rebuilt(d, new_state, today)
      described == [done.node EXCEPT !.description = new_state[3]]
      new_date == IF new_state[4] = None THEN today ELSE strptime_date(new_state[4])
  IN  IF done.exc # NoExc THEN done
      ELSE IF Lacks(new_state, 2) THEN Raised(done.node, "IndexError")
      ELSE IF Lacks(new_state, 3) THEN Raised(described, "IndexError")
      ELSE IF new_date = ValueError THEN Raised(described, "ValueError")
      ELSE Returned([described EXCEPT !.date = new_date])
Diet_state(d) == <<"D", child_states(d), d.description, strftime_date(d.date)>>
\* a Diet template that keeps the date
Diet_template_state_dated(d) ==
  <<"D", child_template_states(d), d.description, strftime_date(d.date)>>
Diet_template_state(d) ==
  LET meal_tem_states == child_template_states(d)
  IN  IF \E i \in 1..Len(meal_tem_states) : meal_tem_states[i] = AttributeError
      THEN AttributeError
      ELSE <<"D", meal_tem_states, d.description, None>>

Session_set_state(ses, new_state) == Returned(add_child(ses, Tail(new_state)))
Session_state(ses) == <<"S", effort(ses), intensity(ses), note(ses)>>

Activity_set_state(act, new_state, today) == rebuilt(act, new_state, today)
Activity_state(act) == <<"A", child_states(act), act.itemid>>
\* an Activity template that keeps the Sessions
Activity_template_state_sessions(act) == Activity_state(act)
Activity_template_state(act) == <<"A", <<>>, act.itemid>>

Workout_set_state(w, new_state, today) ==
  LET done == rebuilt(w, new_state, today)
      described == [done.node EXCEPT !.description = new_state[3]]
      new_period ==
        IF \E i \in 1..Len(new_state[4]) : new_state[4][i] = None
        THEN << <<today[1], today[2], today[3], 0, 0>>,
                <<today[1], today[2], today[3], 1, 0>> >>
        ELSE <<strptime_datetime(new_state[4][1]), strptime_datetime(new_state[4][2])>>
  IN  IF done.exc # NoExc THEN done
      ELSE IF Lacks(new_state, 2) THEN Raised(done.node, "IndexError")
      ELSE IF Lacks(new_state, 3) THEN Raised(described, "IndexError")
      ELSE IF new_period[1] = ValueError \/ new_period[2] = ValueError
           THEN Raised(described, "ValueError")
      ELSE Returned([described EXCEPT !.period = new_period])
Workout_state(w) ==
  <<"W", child_states(w), w.description,
    <<strftime_datetime(began(w)), strftime_datetime(ended(w))>> >>
\* a Workout template that keeps the period
Workout_template_state_period(w) ==
  <<"W", child_template_states(w), w.description, Workout_state(w)[4]>>
Workout_template_state(w) ==
  LET act_tem_states == child_template_states(w)
  IN  IF \E i \in 1..Len(act_tem_states) : act_tem_states[i] = AttributeError
      THEN AttributeError
      ELSE <<"W", act_tem_states, w.description, <<None, None>> >>

Cycle_set_state(c, new_state, today) ==
  LET done == rebuilt(c, new_state, today)
  IN  IF done.exc # NoExc THEN done
      ELSE IF Lacks(new_state, 2) THEN Raised(done.node, "IndexError")
      ELSE Returned([done.node EXCEPT !.description = new_state[3]])
Cycle_state(c) == <<"C", child_states(c), c.description>>
Cycle_template_state(c) ==
  LET wor_tem_states == child_template_states(c)
  IN  IF \E i \in 1..Len(wor_tem_states) : wor_tem_states[i] = AttributeError
      THEN AttributeError
      ELSE <<"C", wor_tem_states, c.description>>

Program_set_state(p, new_state, today) ==
  LET done == rebuilt(p, new_state, today)
      described == [done.node EXCEPT !.description = new_state[3]]
      new_start == IF new_state[4] = None THEN today ELSE strptime_date(new_state[4])
  IN  IF done.exc # NoExc THEN done
      ELSE IF Lacks(new_state, 2) THEN Raised(done.node, "IndexError")
      ELSE IF Lacks(new_state, 3) THEN Raised(described, "IndexError")
      ELSE IF new_start = ValueError THEN Raised(described, "ValueError")
      ELSE Returned([described EXCEPT !.start = new_start])
Program_state(p) == <<"P", child_states(p), p.description, strftime_date(p.start)>>
Program_template_state(p) ==
  LET cyc_tem_states == child_template_states(p)
  IN  IF \E i \in 1..Len(cyc_tem_states) : cyc_tem_states[i] = AttributeError
      THEN AttributeError
      ELSE <<"P", cyc_tem_states, p.description, None>>

\* method resolution by class
state(n) ==
  CASE n.cid = "Q" -> Quantity_state(n)
    [] n.cid = "I" -> Ingredient_state(n)
    [] n.cid = "R" -> Recipe_state(n)
    [] n.cid = "M" -> Meal_state(n)
    [] n.cid = "D" -> Diet_state(n)
    [] n.cid = "S" -> Session_state(n)
    [] n.cid = "A" -> Activity_state(n)
    [] n.cid = "W" -> Workout_state(n)
    [] n.cid = "C" -> Cycle_state(n)
    [] n.cid = "P" -> Program_state(n)

set_state(n, new_state, today) ==
  CASE n.cid = "Q" -> Quantity_set_state(n, new_state)
    [] n.cid = "I" -> Ingredient_set_state(n, new_state, today)
    [] n.cid = "R" -> Recipe_set_state(n, new_state, today)
    [] n.cid = "M" -> Meal_set_state(n, new_state, today)
    [] n.cid = "D" -> Diet_set_state(n, new_state, today)
    [] n.cid = "S" -> Session_set_state(n, new_state)
    [] n.cid = "A" -> Activity_set_state(n, new_state, today)
    [] n.cid = "W" -> Workout_set_state(n, new_state, today)
    [] n.cid = "C" -> Cycle_set_state(n, new_state, today)
    [] n.cid = "P" -> Program_set_state(n, new_state, today)

\* Quantity, Ingredient and Session define no template_state method
template_state(n) ==
  CASE n.cid = "R" -> Recipe_template_state(n)
    [] n.cid = "M" -> Meal_template_state(n)
    [] n.cid = "D" -> Diet_template_state(n)
    [] n.cid = "A" -> Activity_template_state(n)
    [] n.cid = "W" -> Workout_template_state(n)
    [] n.cid = "C" -> Cycle_template_state(n)
    [] n.cid = "P" -> Program_template_state(n)
    [] OTHER -> AttributeError

(***************************************************************************)
(* The Build Viewer: the Build Parent and the element selected in it,       *)
(* which a path of child indices names.                                     *)
(***************************************************************************)
IsLeaf(n) == n.cid \in {"Q", "S"}

RECURSIVE Paths(_)
Paths(n) ==
  {<<>>} \cup
  (IF IsLeaf(n) THEN {}
   ELSE UNION {{<<i>> \o p : p \in Paths(n.container[i])} : i \in 1..Len(n.container)})

RECURSIVE NodeAt(_, _)
NodeAt(n, path) ==
  IF path = <<>> THEN n ELSE NodeAt(n.container[Head(path)], Tail(path))

RECURSIVE ReplaceAt(_, _, _)
ReplaceAt(n, path, new) ==
  IF path = <<>> THEN new
  ELSE [n EXCEPT !.container[Head(path)] = ReplaceAt(@, Tail(path), new)]

RECURSIVE Size(_)
Size(n) ==
  IF IsLeaf(n) THEN 1
  ELSE LET RECURSIVE Sum(_)
           Sum(k) == IF k = 0 THEN 0 ELSE Sum(k - 1) + Size(n.container[k])
       IN  1 + Sum(Len(n.container))

HasBuild == build # NoElement
BuildPaths == IF HasBuild THEN Paths(build) ELSE {}
Elements == {NodeAt(build, p) : p \in BuildPaths}

Init ==
  /\ build = NoElement
  /\ copied_element = NoElement
  /\ references = <<>>
  /\ imported = [outcome |-> "none"]
  /\ objects = <<>>
  /\ viewer = [buildparent |-> NoObject, copied |-> NoObject]
  /\ ureco = [D |-> <<>>, P |-> <<>>]
  /\ utemp = [cid \in {"R", "M", "D", "W", "C", "P"} |-> EmptyDict]
  /\ templateobjects = [cid \in {"R", "M", "D", "W", "C", "P"} |-> EmptyDict]

\* MainWindow.create_build: InputBuildParent offers the six class ids
create_build(cid, today) ==
  /\ UNCHANGED <<copied_element, inventory, heap, stores>>
  /\ build = NoElement
  /\ cid \in {"R", "M", "D", "W", "C", "P"}
  /\ build' = build_element(cid, NoneId, today)

\* MainWindow.clear_build
clear_build ==
  /\ UNCHANGED <<copied_element, inventory, heap, stores>>
  /\ HasBuild
  /\ build' = NoElement

\* MainWindow.add_element on the selected element; toggle_build enables it
\* for R, M, D, C and P
add_element(path, today) ==
  /\ UNCHANGED <<copied_element, inventory, heap, stores>>
  /\ HasBuild /\ Size(build) < MaxNodes
  /\ path \in Paths(build)
  /\ LET selected_element == NodeAt(build, path)
         child_cid == BUILD_ELEMENTS[selected_element.cid][1]
         child_element == build_element(child_cid, NoneId, today)
     IN  /\ selected_element.cid \in {"R", "M", "D", "C", "P"}
         /\ build' = ReplaceAt(build, path, add_child(selected_element, child_element))

\* MainWindow.add_item of a Food or Exercise reference item: toggle_build
\* enables it when the item's class id is a child of the selected element
add_item(path, cid, itemid) ==
  /\ UNCHANGED <<copied_element, inventory, heap, stores>>
  /\ HasBuild /\ Size(build) < MaxNodes
  /\ path \in Paths(build)
  /\ LET selected_element == NodeAt(build, path)
         item_element == build_element(cid, itemid, <<1, 1, 1>>)
     IN  /\ cid \in SeqRange(BUILD_ELEMENTS[selected_element.cid])
         /\ build' = ReplaceAt(build, path, add_child(selected_element, item_element))

\* build_element("Q" or "S", item id of the parent) added to an Ingredient
\* or Activity: a leaf that holds no data tuple yet
add_leaf(path) ==
  /\ UNCHANGED <<copied_element, inventory, heap, stores>>
  /\ HasBuild /\ Size(build) < MaxNodes
  /\ path \in Paths(build)
  /\ LET parent == NodeAt(build, path)
         leaf == build_element(BUILD_ELEMENTS[parent.cid][1], parent.itemid, <<1, 1, 1>>)
     IN  /\ parent.cid \in {"I", "A"}
         /\ build' = ReplaceAt(build, path, add_child(parent, leaf))

\* Quantity.add_child / Session.add_child with a data tuple
add_data(path, child) ==
  /\ UNCHANGED <<copied_element, inventory, heap, stores>>
  /\ HasBuild
  /\ path \in Paths(build)
  /\ LET leaf == NodeAt(build, path)
     IN  /\ IsLeaf(leaf)
         /\ leaf.cid = "Q" => child \in PortionSizes
         /\ leaf.cid = "S" => child \in Measurements
         /\ build' = ReplaceAt(build, path, add_child(leaf, child))

\* MainWindow.edit_element with InputBuildElement.accept: the setters of the
\* selected element
edit_element(path, description, value) ==
  /\ UNCHANGED <<copied_element, inventory, heap, stores>>
  /\ HasBuild
  /\ path \in Paths(build)
  /\ LET e == NodeAt(build, path)
         edited ==
           CASE e.cid = "R" -> [e EXCEPT !.portion = value]
             [] e.cid = "M" -> [e EXCEPT !.time = value]
             [] e.cid = "D" -> [e EXCEPT !.date = value]
             [] e.cid = "W" -> [e EXCEPT !.period = value]
             [] e.cid = "P" -> [e EXCEPT !.start = value]
             [] OTHER -> e
     IN  /\ e.cid \in {"R", "M", "D", "W", "C", "P"}
         /\ build' = ReplaceAt(build, path, [edited EXCEPT !.description = description])

\* MainWindow.remove_element: enabled for all but the Build Parent
remove_element(path) ==
  /\ UNCHANGED <<copied_element, inventory, heap, stores>>
  /\ HasBuild
  /\ path \in Paths(build) /\ path # <<>>
  /\ LET parent == NodeAt(build, Front(path))
     IN  build' = ReplaceAt(build, Front(path), remove_child(parent, Last(path)))

\* MainWindow.toggle_build: the move up button is enabled when the index of
\* the selected element is not 0 and the move down button when
\* index + 1 < childCount
move_enabled(parent, index, direction) ==
  \/ direction = -1 /\ index # 1
  \/ direction = 1 /\ index + 1 <= Len(parent.container)

\* MainWindow.move_element on an enabled button
move_element(path, direction) ==
  /\ UNCHANGED <<copied_element, inventory, heap, stores>>
  /\ HasBuild
  /\ path \in Paths(build) /\ path # <<>>
  /\ LET parent == NodeAt(build, Front(path))
         index == Last(path)
     IN  /\ move_enabled(parent, index, direction)
         /\ build' = ReplaceAt(build, Front(path), move_child(parent, index, direction))

\* a < b for two dates [year, month, day]; '%Y-%m-%d' strings of four-digit
\* years compare as their dates do
DateBefore(a, b) ==
  \/ a[1] < b[1]
  \/ a[1] = b[1] /\ a[2] < b[2]
  \/ a[1] = b[1] /\ a[2] = b[2] /\ a[3] < b[3]

\* Diet.meal_times before the times are written as 'HH:MM' and sorted, which
\* keeps the duplicates
meal_times(d) == [i \in 1..Len(d.container) |-> d.container[i].time]

\* the begans list of save_record: the period begans of the Workouts of every
\* Cycle of a Program, in order
RECURSIVE cycle_begans(_)
cycle_begans(cycles) ==
  IF cycles = <<>> THEN <<>>
  ELSE cycle_begans(Front(cycles))
         \o [i \in 1..Len(Last(cycles).container) |-> began(Last(cycles).container[i])]

\* len(x) != len(set(x))
HasDuplicates(seq) == Len(seq) # Cardinality(SeqRange(seq))

\* the checks of save_record that end it before the record is added; anyway
\* and overwrite are the user's answers to the two confirmations
save_refused(buildparent, anyway, overwrite) ==
  LET build_state == state(buildparent)
      begans == cycle_begans(buildparent.container)
  IN  \/ /\ buildparent.cid = "D"
         /\ HasDuplicates(meal_times(buildparent))
         /\ ~anyway
      \/ /\ buildparent.cid = "P"
         /\ \E i \in 1..Len(begans) :
              DateBefore(SubSeq(begans[i], 1, 3), buildparent.start)
      \/ /\ build_state[4] \in DOMAIN ureco[buildparent.cid]
         /\ ~overwrite

\* User.add_record
add_record(records, record_state) ==
  [records EXCEPT ![record_state[1]] = dict_update(@, record_state[4] :> record_state)]

\* MainWindow.save_record; toggle_build enables it when the Build Parent is a
\* Diet or Program
save_record(anyway, overwrite) ==
  /\ HasBuild /\ build.cid \in {"D", "P"}
  /\ ureco' = IF save_refused(build, anyway, overwrite) THEN ureco
              ELSE add_record(ureco, state(build))
  /\ UNCHANGED <<build, copied_element, inventory, heap, utemp, templateobjects>>

\* MainWindow.save_template of the selected element, then send_item of the
\* saved template: the template becomes the Build Parent
send_template(path, today) ==
  /\ UNCHANGED <<copied_element, inventory, heap, stores>>
  /\ HasBuild
  /\ path \in Paths(build)
  /\ LET selected_element == NodeAt(build, path)
         item_element == build_element(selected_element.cid, NoneId, today)
     IN  /\ selected_element.cid \in {"R", "M", "D", "W", "C", "P"}
         /\ build' = set_state(item_element, template_state(selected_element), today).node

\* MainWindow.save_record of the Build Parent (a Diet or Program) with both
\* confirmations answered Yes, then send_item of the saved record; the
\* record inventory itself is followed in RecordSpec
send_record(today) ==
  /\ UNCHANGED <<copied_element, inventory, heap, stores>>
  /\ HasBuild
  /\ build.cid \in {"D", "P"}
  /\ ~save_refused(build, TRUE, TRUE)
  /\ build' = set_state(build_element(build.cid, NoneId, today), state(build), today).node

\* MainWindow.copy_element: toggle_build enables it for all but Quantity and
\* Session when the element has a parent or is a Recipe
copy_element(path, today) ==
  /\ UNCHANGED <<inventory, heap, stores>>
  /\ HasBuild
  /\ path \in Paths(build)
  /\ LET selected_element == NodeAt(build, path)
         cid == selected_element.cid
         itemid == IF cid \in {"I", "A"} THEN selected_element.itemid ELSE NoneId
     IN  /\ cid \notin {"Q", "S"}
         /\ path # <<>> \/ cid = "R"
         /\ copied_element' =
              set_state(build_element(cid, itemid, today), state(selected_element),
                        today).node
  /\ UNCHANGED build

\* a Paste Element button that is enabled for every copied element
paste_element_anywhere(path) ==
  /\ UNCHANGED <<inventory, heap, stores>>
  /\ HasBuild /\ copied_element # NoElement
  /\ Size(build) + Size(copied_element) <= MaxNodes
  /\ path \in Paths(build)
  /\ LET selected_element == NodeAt(build, path)
     IN  /\ ~IsLeaf(selected_element)
         /\ build' = ReplaceAt(build, path, add_child(selected_element, copied_element))
  /\ copied_element' = NoElement

\* MainWindow.paste_element: toggle_build enables it when the class id of the
\* copied element is a child of the selected element
paste_element(path) ==
  /\ UNCHANGED <<inventory, heap, stores>>
  /\ HasBuild /\ copied_element # NoElement
  /\ Size(build) + Size(copied_element) <= MaxNodes
  /\ path \in Paths(build)
  /\ LET selected_element == NodeAt(build, path)
     IN  /\ copied_element.cid \in SeqRange(BUILD_ELEMENTS[selected_element.cid])
         /\ build' = ReplaceAt(build, path, add_child(selected_element, copied_element))
  /\ copied_element' = NoElement

\* the elements the Build Viewer can select
Selectable(cids) == {p \in BuildPaths : NodeAt(build, p).cid \in cids}

Next ==
  \/ \E cid \in {"R", "M", "D", "W", "C", "P"}, today \in Todays : create_build(cid, today)
  \/ clear_build
  \/ \E path \in BuildPaths, today \in Todays : add_element(path, today)
  \/ \E path \in BuildPaths, itemid \in FoodIds : add_item(path, "I", itemid)
  \/ \E path \in BuildPaths, itemid \in ExerciseIds : add_item(path, "A", itemid)
  \/ \E path \in BuildPaths : add_leaf(path)
  \/ \E path \in Selectable({"Q"}), child \in PortionSizes : add_data(path, child)
  \/ \E path \in Selectable({"S"}), child \in Measurements : add_data(path, child)
  \/ \E path \in Selectable({"R", "M", "D", "W", "C", "P"}) :
       \E choice \in EditChoices[NodeAt(build, path).cid] :
         edit_element(path, choice[1], choice[2])
  \/ \E path \in BuildPaths : remove_element(path)
  \/ \E path \in BuildPaths, direction \in {-1, 1} : move_element(path, direction)
  \/ \E path \in BuildPaths, today \in Todays : send_template(path, today)
  \/ \E today \in Todays : send_record(today)

Spec == Init /\ [][Next]_vars

(***************************************************************************)
(* The Build Manager on a fitness build, with the Sessions of an Activity   *)
(* entered as InputActivity enters them: all at once, each with data.       *)
(***************************************************************************)
MaxFitnessElements == 5
MaxActivities == 2

\* the rows of the Sessions table that InputActivity.accept parses
SessionInputs == {<< <<3, 150, "">>, <<5, 100, "">> >>, << <<4, 120, "">> >>}

\* the Workouts, Cycles, Programs and Activities of an element
RECURSIVE FitnessSize(_)
FitnessSize(n) ==
  IF n.cid = "S" THEN 0
  ELSE LET RECURSIVE Sum(_)
           Sum(k) == IF k = 0 THEN 0 ELSE Sum(k - 1) + FitnessSize(n.container[k])
       IN  1 + Sum(Len(n.container))

\* the Activities of an element, in tree order
RECURSIVE Activities(_)
Activities(n) ==
  IF n.cid = "A" THEN <<n>>
  ELSE LET RECURSIVE Join(_)
           Join(k) == IF k = 0 THEN <<>> ELSE Join(k - 1) \o Activities(n.container[k])
       IN  Join(Len(n.container))

\* InputActivity.accept: the container is cleared and one Session is added
\* for each complete row
RECURSIVE input_sessions(_, _)
input_sessions(activity, session_children) ==
  IF session_children = <<>> THEN clear_container(activity)
  ELSE add_child(input_sessions(activity, Front(session_children)),
                 add_child(Session(activity.itemid), Last(session_children)))

\* MainWindow.add_element on a Cycle or Program
add_fitness_element(path, today) ==
  /\ UNCHANGED <<copied_element, inventory, heap, stores>>
  /\ HasBuild /\ FitnessSize(build) < MaxFitnessElements
  /\ path \in Paths(build)
  /\ LET selected_element == NodeAt(build, path)
         child_element ==
           build_element(BUILD_ELEMENTS[selected_element.cid][1], NoneId, today)
     IN  /\ selected_element.cid \in {"C", "P"}
         /\ build' = ReplaceAt(build, path, add_child(selected_element, child_element))

\* MainWindow.add_item of an Exercise on a Workout: the Activity is added
\* when the InputActivity dialog is accepted
add_activity(path, itemid, session_children) ==
  /\ UNCHANGED <<copied_element, inventory, heap, stores>>
  /\ HasBuild /\ FitnessSize(build) < MaxFitnessElements
  /\ Len(Activities(build)) < MaxActivities
  /\ path \in Paths(build)
  /\ LET selected_element == NodeAt(build, path)
         item_element == input_sessions(build_element("A", itemid, <<1, 1, 1>>),
                                        session_children)
     IN  /\ selected_element.cid = "W"
         /\ build' = ReplaceAt(build, path, add_child(selected_element, item_element))

\* MainWindow.edit_element on an Activity: InputActivity.accept
edit_activity(path, session_children) ==
  /\ UNCHANGED <<copied_element, inventory, heap, stores>>
  /\ HasBuild
  /\ path \in Paths(build)
  /\ NodeAt(build, path).cid = "A"
  /\ build' = ReplaceAt(build, path, input_sessions(NodeAt(build, path), session_children))

\* Activity.add_child of a Session that holds no data, on an Activity that
\* holds no Session
add_empty_session(path) ==
  /\ UNCHANGED <<copied_element, inventory, heap, stores>>
  /\ HasBuild
  /\ path \in Paths(build)
  /\ LET activity == NodeAt(build, path)
     IN  /\ activity.cid = "A"
         /\ activity.container = <<>>
         /\ build' = ReplaceAt(build, path, add_child(activity, Session(activity.itemid)))

FitnessNext ==
  \/ \E cid \in {"W", "C", "P"}, today \in Todays : create_build(cid, today)
  \/ clear_build
  \/ \E path \in BuildPaths, today \in Todays : add_fitness_element(path, today)
  \/ \E path \in BuildPaths, itemid \in ExerciseIds :
       \E session_children \in SessionInputs \cup {<<>>} :
         add_activity(path, itemid, session_children)
  \/ \E path \in BuildPaths, session_children \in SessionInputs :
       edit_activity(path, session_children)
  \/ \E path \in BuildPaths : add_empty_session(path)
  \/ \E path \in Selectable({"W"}) :
       \E choice \in EditChoices["W"] : edit_element(path, choice[1], choice[2])
  \/ \E path \in Selectable({"A", "W", "C"}) : remove_element(path)
  \/ \E path \in Selectable({"A", "W", "C"}), direction \in {-1, 1} :
       move_element(path, direction)

FitnessSpec == Init /\ [][FitnessNext]_vars

\* the Build Manager with its Copy Element and Paste Element buttons
MaxManagerNodes == 3
ManagerRoom(more) == HasBuild /\ Size(build) + more <= MaxManagerNodes

ManagerNext ==
  \/ \E cid \in {"R", "M", "D", "W", "C", "P"}, today \in Todays : create_build(cid, today)
  \/ clear_build
  \/ ManagerRoom(1) /\ \E path \in BuildPaths, today \in Todays : add_element(path, today)
  \/ ManagerRoom(1) /\ \E path \in BuildPaths, itemid \in FoodIds : add_item(path, "I", itemid)
  \/ ManagerRoom(1) /\ \E path \in BuildPaths, itemid \in ExerciseIds :
                         add_item(path, "A", itemid)
  \/ \E path \in BuildPaths, today \in Todays : copy_element(path, today)
  \/ /\ copied_element # NoElement
     /\ ManagerRoom(Size(copied_element))
     /\ \E path \in BuildPaths : paste_element(path)
  \/ \E path \in BuildPaths : remove_element(path)
  \/ \E path \in BuildPaths, direction \in {-1, 1} : move_element(path, direction)

ManagerSpec == Init /\ [][ManagerNext]_vars

(***************************************************************************)
(* The Build Manager on small builds that are saved and sent back to the    *)
(* Build Viewer, where set_state builds them again from their state         *)
(***************************************************************************)
MaxLoadNodes == 3
LoadRoom == HasBuild /\ Size(build) < MaxLoadNodes

LoadNext ==
  \/ \E cid \in {"R", "M", "D", "W", "C", "P"}, today \in Todays : create_build(cid, today)
  \/ clear_build
  \/ LoadRoom /\ \E path \in BuildPaths, today \in Todays : add_element(path, today)
  \/ LoadRoom /\ \E path \in BuildPaths, itemid \in FoodIds : add_item(path, "I", itemid)
  \/ LoadRoom /\ \E path \in BuildPaths, itemid \in ExerciseIds : add_item(path, "A", itemid)
  \/ LoadRoom /\ \E path \in BuildPaths : add_leaf(path)
  \/ \E path \in Selectable({"Q"}), child \in PortionSizes : add_data(path, child)
  \/ \E path \in Selectable({"S"}), child \in Measurements : add_data(path, child)
  \/ \E path \in Selectable({"R", "M", "D", "W", "C", "P"}) :
       \E choice \in EditChoices[NodeAt(build, path).cid] :
         edit_element(path, choice[1], choice[2])
  \/ \E path \in BuildPaths, today \in Todays : send_template(path, today)
  \/ \E today \in Todays : send_record(today)

LoadSpec == Init /\ [][LoadNext]_vars

(***************************************************************************)
(* Saving the Build Parent as a record                                      *)
(***************************************************************************)
MaxRecords == 1

\* the records of both inventories
RecordCount == Cardinality(DOMAIN ureco["D"]) + Cardinality(DOMAIN ureco["P"])

RecordNext ==
  \/ \E cid \in {"D", "P"}, today \in Todays : create_build(cid, today)
  \/ clear_build
  \/ \E path \in BuildPaths, today \in Todays : add_element(path, today)
  \/ \E path \in Selectable({"M", "D", "W", "P"}) :
       \E choice \in EditChoices[NodeAt(build, path).cid] :
         edit_element(path, choice[1], choice[2])
  \/ \E path \in BuildPaths : remove_element(path)
  \/ /\ HasBuild
     /\ RecordCount < MaxRecords \/ state(build)[4] \in DOMAIN ureco[build.cid]
     /\ \E anyway, overwrite \in BOOLEAN : save_record(anyway, overwrite)

RecordSpec == Init /\ [][RecordNext]_vars

(***************************************************************************)
(* The template inventories: User.add_template and User.remove_template     *)
(* behind MainWindow.save_template and MainWindow.delete_item.  An item id   *)
(* is a string of digits; MaxTemplates stands for the 500 ids from '101' to *)
(* '600'.                                                                   *)
(***************************************************************************)
MaxTemplates == 3

False == <<"False">>

\* str(i) of an int that is not negative, and int(s) of a string of digits
RECURSIVE str(_)
str(i) == IF i < 10 THEN <<DigitChars[i + 1]>>
          ELSE str(i \div 10) \o <<DigitChars[(i % 10) + 1]>>
int(s) == Number(s)

\* a <= b for two strings, as Python compares them: by the first character
\* that differs, a prefix before the longer string
RECURSIVE str_le(_, _)
str_le(a, b) ==
  IF a = <<>> THEN TRUE
  ELSE IF b = <<>> THEN FALSE
  ELSE IF Head(a) = Head(b) THEN str_le(Tail(a), Tail(b))
  ELSE DigitValue(Head(a)) < DigitValue(Head(b))

\* the first and the last template item id: "101" and "600" in the source
FirstTemplateId == str(101)
LastTemplateId == str(100 + MaxTemplates)

\* organs.max_key with a floor and a ceiling: the first key found in the
\* range, replaced by every key up to the ceiling that is greater; None for
\* an empty dictionary, a floor above the ceiling or no key in the range
max_key(data_dict, floor, ceiling) ==
  LET found == {key \in DOMAIN data_dict : str_le(floor, key) /\ str_le(key, ceiling)}
  IN  IF DOMAIN data_dict = {} THEN None
      ELSE IF ~str_le(floor, ceiling) THEN None
      ELSE IF found = {} THEN None
      ELSE CHOOSE max_found \in found : \A key \in found : str_le(key, max_found)

\* list.sort() of a list of different ints
RECURSIVE sorted_ints(_)
sorted_ints(ints) ==
  IF ints = {} THEN <<>>
  ELSE LET least == CHOOSE i \in ints : \A j \in ints : i <= j
       IN  <<least>> \o sorted_ints(ints \ {least})

\* a renumbering that leaves the dictionary as it is
consecutive_dict_gapped(data_dict, start, end) == data_dict

\* organs.consecutive_dict on string keys
consecutive_dict(data_dict, start, end) ==
  LET start_int == int(start)
      end_int == int(end)
      inkeys == {key \in DOMAIN data_dict : start_int <= int(key) /\ int(key) <= end_int}
      outrange == DOMAIN data_dict \ inkeys
      inrange == sorted_ints({int(key) : key \in inkeys})
      num_inrange == Len(inrange)
      new_keys == {str(start_int + idx - 1) : idx \in 1..num_inrange}
  IN  IF start_int > end_int THEN None
      ELSE IF num_inrange = 0 \/ (num_inrange = 1 /\ inrange[1] = start_int)
      THEN data_dict
      ELSE IF inrange[1] = start_int /\ inrange[1] + num_inrange - 1 = inrange[num_inrange]
      THEN data_dict
      ELSE [key \in new_keys \cup outrange |->
              IF key \in outrange THEN data_dict[key]
              ELSE data_dict[str(inrange[int(key) - start_int + 1])]]

\* dict.pop(key)
dict_pop(data_dict, key) == [k \in DOMAIN data_dict \ {key} |-> data_dict[k]]

\* User.add_template of a new template (no item id): what it returns and the
\* two dictionaries after it
add_template(templates, objs, tem_state, today) ==
  LET cid == tem_state[1]
      max_id == max_key(templates[cid], FirstTemplateId, LastTemplateId)
      tid == IF max_id = None THEN FirstTemplateId ELSE str(int(max_id) + 1)
      tem_object == set_state(build_element(cid, NoneId, today), tem_state, today).node
  IN  IF tid = str(int(LastTemplateId) + 1)
      THEN [returned |-> False, utemp |-> templates, templateobjects |-> objs]
      ELSE [returned |-> tid,
            utemp |-> [templates EXCEPT ![cid] = dict_update(@, tid :> tem_state)],
            templateobjects |-> [objs EXCEPT ![cid] = dict_update(@, tid :> tem_object)]]

\* User.remove_template: the two dictionaries after it
remove_template(templates, objs, cid, item_id) ==
  [utemp |-> [templates EXCEPT ![cid] =
                consecutive_dict(dict_pop(@, item_id), FirstTemplateId, LastTemplateId)],
   templateobjects |-> [objs EXCEPT ![cid] =
                consecutive_dict(dict_pop(@, item_id), FirstTemplateId, LastTemplateId)]]

\* MainWindow.save_template of the selected element; anyway is the answer to
\* the question asked for a template without description
save_template(path, anyway, today) ==
  /\ HasBuild
  /\ path \in Paths(build)
  /\ LET selected_element == NodeAt(build, path)
         added == add_template(utemp, templateobjects,
                               template_state(selected_element), today)
     IN  /\ selected_element.cid \in {"R", "M", "D", "W", "C", "P"}
         /\ template_state(selected_element) # AttributeError
         /\ IF selected_element.description = "(unnamed)" /\ ~anyway
            THEN UNCHANGED <<utemp, templateobjects>>
            ELSE /\ utemp' = added.utemp
                 /\ templateobjects' = added.templateobjects
  /\ UNCHANGED <<build, copied_element, inventory, heap, ureco>>

\* MainWindow.delete_item of a template of the inventory, confirmed
delete_item(cid, itemid) ==
  /\ itemid \in DOMAIN utemp[cid]
  /\ LET removed == remove_template(utemp, templateobjects, cid, itemid)
     IN  /\ utemp' = removed.utemp
         /\ templateobjects' = removed.templateobjects
  /\ UNCHANGED <<build, copied_element, inventory, heap, ureco>>

\* the item ids a template can have
TemplateIds == {str(100 + i) : i \in 1..MaxTemplates}

TemplateNext ==
  \/ \E cid \in {"R", "C"}, today \in Todays : create_build(cid, today)
  \/ clear_build
  \/ \E path \in Selectable({"R", "C"}) :
       \E choice \in EditChoices[NodeAt(build, path).cid] :
         edit_element(path, choice[1], choice[2])
  \/ \E path \in BuildPaths, anyway \in BOOLEAN, today \in Todays :
       save_template(path, anyway, today)
  \/ \E cid \in {"R", "C"}, itemid \in TemplateIds : delete_item(cid, itemid)

TemplateSpec == Init /\ [][TemplateNext]_vars

(***************************************************************************)
(* The Build Manager on build element objects: every object has an id, a    *)
(* container lists the ids of the objects it holds, and an object that      *)
(* neither the Build Viewer nor the Copied Viewer reaches is dropped.       *)
(***************************************************************************)
MaxObjects == 4

Alive == DOMAIN objects
held(oid) == SeqRange(objects[oid].container)

\* the objects at or under the objects of a set, in a map of objects
RECURSIVE Closure(_, _, _)
Closure(objs, oids, steps) ==
  LET more == oids \cup UNION {SeqRange(objs[oid].container) : oid \in oids}
  IN  IF steps = 0 \/ more = oids THEN oids ELSE Closure(objs, more, steps - 1)
Under(objs, oid) == IF oid = NoObject THEN {} ELSE Closure(objs, {oid}, MaxObjects)

\* the elements of the Build Viewer
Shown == Under(objects, viewer.buildparent)

\* the objects that stay after a step: those a viewer reaches
Kept(objs, view) ==
  LET reached == Under(objs, view.buildparent) \cup Under(objs, view.copied)
  IN  [oid \in reached |-> objs[oid]]

\* the ids of k new objects, in the order of their construction
NewIdsBeside(alive, k) ==
  LET free == (1..(MaxObjects + k)) \ alive
      RECURSIVE Least_of(_, _)
      Least_of(ids, n) ==
        IF n = 0 THEN <<>>
        ELSE LET least == CHOOSE i \in ids : \A j \in ids : i <= j
             IN  <<least>> \o Least_of(ids \ {least}, n - 1)
  IN  Least_of(free, k)
NewIds(k) == NewIdsBeside(Alive, k)

\* QTreeWidgetItem.parent(): the object whose children hold the element
ParentOf(oid) ==
  IF \E p \in Alive : oid \in held(p)
  THEN CHOOSE p \in Alive : oid \in held(p)
  ELSE NoObject

Room(more) == Cardinality(Alive) + more <= MaxObjects

\* MainWindow.create_build
create_build_object(cid) ==
  /\ viewer.buildparent = NoObject /\ Room(1)
  /\ LET new == NewIds(1)[1]
     IN  /\ objects' = (new :> [cid |-> cid, container |-> <<>>]) @@ objects
         /\ viewer' = [viewer EXCEPT !.buildparent = new]
  /\ UNCHANGED <<build, copied_element, inventory, stores>>

\* MainWindow.clear_build
clear_build_object ==
  /\ viewer.buildparent # NoObject
  /\ viewer' = [viewer EXCEPT !.buildparent = NoObject]
  /\ objects' = Kept(objects, viewer')
  /\ UNCHANGED <<build, copied_element, inventory, stores>>

\* MainWindow.add_element: build_element(child_cid) is a new object
add_element_object(selected) ==
  /\ selected \in Shown /\ Room(1)
  /\ objects[selected].cid \in {"R", "M", "D", "C", "P"}
  /\ LET new == NewIds(1)[1]
         child_cid == BUILD_ELEMENTS[objects[selected].cid][1]
     IN  objects' = (new :> [cid |-> child_cid, container |-> <<>>])
                      @@ [objects EXCEPT ![selected].container = Append(@, new)]
  /\ UNCHANGED <<build, copied_element, inventory, viewer, stores>>

\* MainWindow.add_item of a reference item: build_element(cid, itemid) is a
\* new object, and so is the Quantity or Session the input dialog adds to it
add_item_object(selected, cid) ==
  /\ selected \in Shown /\ Room(2)
  /\ cid \in SeqRange(BUILD_ELEMENTS[objects[selected].cid])
  /\ LET new == NewIds(2)
     IN  objects' = (new[1] :> [cid |-> cid, container |-> <<new[2]>>])
                      @@ (new[2] :> [cid |-> BUILD_ELEMENTS[cid][1], container |-> <<>>])
                      @@ [objects EXCEPT ![selected].container = Append(@, new[1])]
  /\ UNCHANGED <<build, copied_element, inventory, viewer, stores>>

\* a Copy Element that keeps the selected object itself as the copy
copy_element_shared(selected) ==
  /\ selected \in Shown
  /\ objects[selected].cid \notin {"Q", "S"}
  /\ ParentOf(selected) # NoObject \/ objects[selected].cid = "R"
  /\ viewer' = [viewer EXCEPT !.copied = selected]
  /\ objects' = Kept(objects, viewer')
  /\ UNCHANGED <<build, copied_element, inventory, stores>>

\* MainWindow.copy_element: build_element and set_state construct a new
\* object for the selected element and for every element under it
copy_element_object(selected) ==
  /\ selected \in Shown
  /\ objects[selected].cid \notin {"Q", "S"}
  /\ ParentOf(selected) # NoObject \/ objects[selected].cid = "R"
  /\ LET originals == Under(objects, selected)
         before == Kept(objects, [viewer EXCEPT !.copied = NoObject])
         count == Cardinality(originals)
         new == NewIdsBeside(DOMAIN before, count)
         copy_of == [a \in originals |-> new[Cardinality({b \in originals : b <= a})]]
         copies == {copy_of[a] : a \in originals}
     IN  /\ Cardinality(DOMAIN before) + count <= MaxObjects
         /\ objects' =
              [oid \in DOMAIN before \cup copies |->
                 IF oid \in copies
                 THEN LET a == CHOOSE a \in originals : copy_of[a] = oid
                      IN  [cid |-> objects[a].cid,
                           container |-> [i \in 1..Len(objects[a].container) |->
                                            copy_of[objects[a].container[i]]]]
                 ELSE before[oid]]
         /\ viewer' = [viewer EXCEPT !.copied = copy_of[selected]]
  /\ UNCHANGED <<build, copied_element, inventory, stores>>

\* MainWindow.paste_element: the copied object itself is added, and
\* copied_element becomes None
paste_element_object(selected) ==
  /\ selected \in Shown /\ viewer.copied # NoObject
  /\ objects[viewer.copied].cid \in SeqRange(BUILD_ELEMENTS[objects[selected].cid])
  /\ objects' = [objects EXCEPT ![selected].container = Append(@, viewer.copied)]
  /\ viewer' = [viewer EXCEPT !.copied = NoObject]
  /\ UNCHANGED <<build, copied_element, inventory, stores>>

\* MainWindow.remove_element: parent.remove_child(selected_element)
remove_element_object(selected) ==
  /\ selected \in Shown /\ ParentOf(selected) # NoObject
  /\ LET parent == ParentOf(selected)
         index == CHOOSE i \in 1..Len(objects[parent].container) :
                    /\ objects[parent].container[i] = selected
                    /\ \A j \in 1..(i - 1) : objects[parent].container[j] # selected
     IN  objects' = Kept([objects EXCEPT ![parent].container = RemoveAt(@, index)], viewer)
  /\ UNCHANGED <<build, copied_element, inventory, viewer, stores>>

\* MainWindow.move_element: parent.move_child(selected_element, direction)
move_element_object(selected, direction) ==
  /\ selected \in Shown /\ ParentOf(selected) # NoObject
  /\ LET parent == ParentOf(selected)
         index == CHOOSE i \in 1..Len(objects[parent].container) :
                    /\ objects[parent].container[i] = selected
                    /\ \A j \in 1..(i - 1) : objects[parent].container[j] # selected
     IN  /\ \/ direction = -1 /\ index # 1
            \/ direction = 1 /\ index + 1 <= Len(objects[parent].container)
         /\ objects' = [objects EXCEPT ![parent].container =
                          InsertAt(RemoveAt(@, index), index + direction, selected)]
  /\ UNCHANGED <<build, copied_element, inventory, viewer, stores>>

ObjectNext ==
  \/ \E cid \in {"R", "M", "D", "W", "C", "P"} : create_build_object(cid)
  \/ clear_build_object
  \/ \E selected \in Shown : add_element_object(selected)
  \/ \E selected \in Shown, cid \in {"I", "A"} : add_item_object(selected, cid)
  \/ \E selected \in Shown : copy_element_object(selected)
  \/ \E selected \in Shown : paste_element_object(selected)
  \/ \E selected \in Shown : remove_element_object(selected)
  \/ \E selected \in Shown, direction \in {-1, 1} : move_element_object(selected, direction)

ObjectSpec == Init /\ [][ObjectNext]_vars

(***************************************************************************)
(* Reference items and data capsules                                        *)
(* A value of a JSON file or of a property is <<type, value>>: a str, a     *)
(* number, a list (a sequence of values) or a dict (a function on keys).    *)
(***************************************************************************)
MaxReferences == 2

Str(s) == <<"str", s>>
Num(i) == <<"num", i>>
List(items) == <<"list", items>>
Dict(f) == <<"dict", f>>

\* the names of module dna that Reference.__init__ reads, and those of them
\* that dna defines
FOOD_GROUPS == {"0100", "1800"}
NUTRIENTS == {"203", "204", "205", "208"}
MUSCLES == {"Chest", "Quadriceps"}
dna_attributes == {"FOOD_GROUPS", "NUTRIENTS", "MUSCLES"}

\* float(v): the exception it raises, if any
float_raises(v) ==
  CASE v[1] = "num" -> NoExc
    [] v[1] = "str" -> IF v[2] \in {"2", "0.5"} THEN NoExc ELSE "ValueError"
    [] OTHER -> "TypeError"

\* the first exception of a sequence of checks made in order
FirstRaised(excs) ==
  LET raised == {i \in 1..Len(excs) : excs[i] # NoExc}
  IN  IF raised = {} THEN NoExc
      ELSE excs[CHOOSE i \in raised : \A j \in raised : i <= j]

\* Reference.__init__: the loop over index_types
capsule_types(ref_type, data_capsule) ==
  FirstRaised([index \in 1..4 |->
    IF index + 1 > Len(data_capsule) THEN "IndexError"
    ELSE IF data_capsule[index + 1][1]
              = (CASE index \in {1, 2} -> "str"
                   [] index = 3 -> "list"
                   [] index = 4 -> IF ref_type = "Food" THEN "dict" ELSE "list")
         THEN NoExc
         ELSE "TypeError"])

\* Reference.__init__: the checks of one unit sequence
sequence_raises(sequence) ==
  IF sequence[1] # "list" THEN "TypeError"
  ELSE IF Len(sequence[2]) # 3 THEN "IndexError"
  ELSE FirstRaised(<<float_raises(sequence[2][1]),
                     IF sequence[2][2][1] = "str" THEN NoExc ELSE "TypeError",
                     float_raises(sequence[2][3])>>)

\* Reference.__init__: the checks of a Food capsule; a dict is modelled with
\* at most one violation, so the order of its keys does not matter
food_raises(data_capsule) ==
  IF data_capsule[3][2] \notin FOOD_GROUPS THEN "ValueError"
  ELSE LET sequences == data_capsule[4][2]
           content == data_capsule[5][2]
           in_sequences ==
             FirstRaised([i \in 1..Len(sequences) |-> sequence_raises(sequences[i])])
           unknown == {nutrientid \in DOMAIN content : nutrientid \notin NUTRIENTS}
           unconvertible ==
             {nutrientid \in DOMAIN content : float_raises(content[nutrientid]) # NoExc}
       IN  IF in_sequences # NoExc THEN in_sequences
           ELSE IF unknown # {} THEN "KeyError"
           ELSE IF unconvertible # {}
                THEN float_raises(content[CHOOSE nutrientid \in unconvertible : TRUE])
                ELSE NoExc

\* Reference.__init__: the checks of an Exercise capsule, which begin by
\* reading dna.MUSCLE
exercise_raises(data_capsule) ==
  IF "MUSCLE" \notin dna_attributes THEN "AttributeError"
  ELSE IF data_capsule[3][2] \notin MUSCLES THEN "ValueError"
  ELSE IF Len(data_capsule[4][2]) # 2 THEN "IndexError"
  ELSE IF \E i \in 1..Len(data_capsule[4][2]) : data_capsule[4][2][i][1] # "str"
       THEN "TypeError"
  ELSE IF \E i \in 1..Len(data_capsule[5][2]) : data_capsule[5][2][i][1] # "str"
       THEN "TypeError"
  ELSE NoExc

\* the _info of a Reference
FoodInfo(is_capsule, description, groupid, unitsequences, nutrientcontent) ==
  [reftype |-> "Food", isdatacapsule |-> is_capsule, isfavorite |-> FALSE,
   itemid |-> "", description |-> description, groupid |-> groupid,
   unitsequences |-> unitsequences, nutrientcontent |-> nutrientcontent]

ExerciseInfo(is_capsule, description, focus_muscle, units, exercise_tags) ==
  [reftype |-> "Exercise", isdatacapsule |-> is_capsule, isfavorite |-> FALSE,
   itemid |-> "", description |-> description, focusmuscle |-> focus_muscle,
   units |-> units, tags |-> exercise_tags]

\* Reference(ref_type, data_capsule=data_capsule): the _info of the object,
\* or the exception the constructor raises
Reference(ref_type, data_capsule) ==
  LET in_types == capsule_types(ref_type, data_capsule)
      raised == IF in_types # NoExc THEN in_types
                ELSE IF ref_type = "Food" THEN food_raises(data_capsule)
                ELSE exercise_raises(data_capsule)
  IN  IF raised # NoExc THEN [info |-> NoElement, exc |-> raised]
      ELSE IF ref_type = "Food"
      THEN [info |-> FoodInfo(TRUE, data_capsule[2], data_capsule[3],
                              data_capsule[4], data_capsule[5]),
            exc |-> NoExc]
      ELSE [info |-> ExerciseInfo(TRUE, data_capsule[2], data_capsule[3],
                                  data_capsule[4], data_capsule[5]),
            exc |-> NoExc]

\* Reference.datacapsule
datacapsule(info) ==
  IF info.reftype = "Food"
  THEN <<Str("Food"), info.description, info.groupid, info.unitsequences,
         info.nutrientcontent>>
  ELSE <<Str("Exercise"), info.description, info.focusmuscle, info.units, info.tags>>

\* the item ids add_reference assigns, in order, for each kind
ReferenceIds ==
  [Food |-> <<"200001", "200002", "200003", "200004">>,
   Exercise |-> <<"10001", "10002", "10003", "10004">>]

\* User.add_reference of a Reference without item id
add_reference(refs, info) ==
  LET same_kind == {i \in 1..Len(refs) : refs[i].reftype = info.reftype}
      rid == ReferenceIds[info.reftype][Cardinality(same_kind) + 1]
  IN  Append(refs, [info EXCEPT !.itemid = rid])

\* the properties InputFood and InputExercise accept for a new item
NewReferences ==
  {FoodInfo(FALSE, Str("Milk"), Str("0100"),
            List(<<List(<<Num(1), Str("cup"), Num(240)>>)>>),
            Dict([nutrientid \in {"203"} |-> Num(10)])),
   ExerciseInfo(FALSE, Str("Squat"), Str("Quadriceps"),
                List(<<Str("rep"), Str("lb")>>), List(<<Str("barbell")>>)),
   ExerciseInfo(FALSE, Str("Bench Press"), Str("Chest"),
                List(<<Str("rep"), Str("lb")>>), List(<<>>))}

\* the contents of the data capsule files: a capsule of each kind that keeps
\* every rule, and capsules that break one rule each
FoodCapsule ==
  <<Str("Food"), Str("Bread"), Str("1800"),
    List(<<List(<<Str("2"), Str("slice"), Num(50)>>)>>),
    Dict([nutrientid \in {"205"} |-> Str("0.5")])>>

ExerciseCapsule ==
  <<Str("Exercise"), Str("Row"), Str("Chest"),
    List(<<Str("rep"), Str("lb")>>), List(<<Str("cable")>>)>>

BadFoodCapsules ==
  {<<Str("Food"), Str("Bread")>>,
   [FoodCapsule EXCEPT ![2] = Num(7)],
   [FoodCapsule EXCEPT ![3] = Num(1800)],
   [FoodCapsule EXCEPT ![3] = Str("9900")],
   [FoodCapsule EXCEPT ![4] = List(<<Str("slice")>>)],
   [FoodCapsule EXCEPT ![4] = List(<<List(<<Num(2), Str("slice")>>)>>)],
   [FoodCapsule EXCEPT ![4] = List(<<List(<<Str("two"), Str("slice"), Num(50)>>)>>)],
   [FoodCapsule EXCEPT ![4] = List(<<List(<<Num(2), Num(1), Num(50)>>)>>)],
   [FoodCapsule EXCEPT ![4] = List(<<List(<<Num(2), Str("slice"), List(<<>>)>>)>>)],
   [FoodCapsule EXCEPT ![5] = Dict([nutrientid \in {"999"} |-> Num(1)])],
   [FoodCapsule EXCEPT ![5] = Dict([nutrientid \in {"205"} |-> Str("much")])]}

BadExerciseCapsules ==
  {[ExerciseCapsule EXCEPT ![2] = Num(7)],
   [ExerciseCapsule EXCEPT ![3] = Num(3)],
   [ExerciseCapsule EXCEPT ![3] = Str("Wing")],
   [ExerciseCapsule EXCEPT ![4] = List(<<Str("rep")>>)],
   [ExerciseCapsule EXCEPT ![4] = List(<<Str("rep"), Num(5)>>)],
   [ExerciseCapsule EXCEPT ![5] = List(<<Num(5)>>)]}

Capsules ==
  {<<>>, FoodCapsule, ExerciseCapsule} \cup BadFoodCapsules \cup BadExerciseCapsules

\* the exceptions load_data_capsule handles with a warning
HandledExceptions == {"IndexError", "KeyError", "TypeError", "ValueError"}

\* MainWindow.load_data_capsule for one capsule file: the reference items
\* afterwards and what became of the capsule; an exception that is not
\* handled leaves the method
load_capsule(refs, reftype, cap_data, accepted) ==
  IF cap_data = <<>>
  THEN [references |-> refs, outcome |-> "warned"]
  ELSE IF cap_data[1] # Str(reftype)
  THEN [references |-> refs, outcome |-> "wrong kind"]
  ELSE LET refobject == Reference(reftype, cap_data)
       IN  IF refobject.exc \in HandledExceptions
           THEN [references |-> refs, outcome |-> "warned"]
           ELSE IF refobject.exc # NoExc
           THEN [references |-> refs, outcome |-> refobject.exc]
           ELSE IF ~accepted
           THEN [references |-> refs, outcome |-> "skipped"]
           ELSE [references |-> add_reference(refs, refobject.info),
                 outcome |-> "created"]

\* MainWindow.create_reference with the input dialog accepted
create_reference(info) ==
  /\ Len(references) < MaxReferences
  /\ references' = add_reference(references, info)
  /\ imported' = [outcome |-> "none"]
  /\ UNCHANGED <<build, copied_element, heap, stores>>

\* MainWindow.load_data_capsule with one file selected
load_data_capsule(reftype, cap_data, accepted) ==
  /\ Len(references) < MaxReferences
  /\ LET done == load_capsule(references, reftype, cap_data, accepted)
     IN  /\ references' = done.references
         /\ imported' = [outcome |-> done.outcome, reftype |-> reftype,
                         capsule |-> cap_data]
  /\ UNCHANGED <<build, copied_element, heap, stores>>

CapsuleNext ==
  \/ \E info \in NewReferences : create_reference(info)
  \/ \E reftype \in {"Food", "Exercise"}, cap_data \in Capsules, accepted \in BOOLEAN :
       load_data_capsule(reftype, cap_data, accepted)

CapsuleSpec == Init /\ [][CapsuleNext]_vars

(***************************************************************************)
(* Properties                                                               *)
(***************************************************************************)
NutritionCids == {"Q", "I", "R", "M", "D"}
FitnessCids == {"S", "A", "W", "C", "P"}

ElementsOf(cids) == {e \in Elements : e.cid \in cids}

ItemIdOf(x) == IF x.cid \in {"Q", "I", "S", "A"} THEN x.itemid ELSE NoneId

\* the elements y a state of x may be set on: a new element of the factory and
\* every element of the build of x's class (and item id), whatever it holds
Targets(x) ==
  {build_element(x.cid, ItemIdOf(x), today) : today \in Todays}
    \cup {e \in Elements : e.cid = x.cid /\ ItemIdOf(e) = ItemIdOf(x)}

\* y after y.set_state(x.state())
Rebuilt(x, y, today) == set_state(y, state(x), today)

(* C1: for every element x of every class and every element y of the      *)
(* factory with x's class id and item id, whatever y held before,          *)
(* y.set_state(x.state()) returns and leaves y.state() = x.state(); the    *)
(* builds reached include those loaded from a template state.              *)
C1_StateRoundTrip ==
  \A x \in Elements : \A y \in Targets(x) : \A today \in Todays :
    LET done == Rebuilt(x, y, today)
    IN  done.exc = NoExc /\ state(done.node) = state(x)

\* an element with children is set on another element of its class that held
\* other children
C1_Witness ==
  \E x \in Elements : \E y \in Targets(x) : \E today \in Todays :
    /\ x.container # <<>>
    /\ state(y) # state(x)
    /\ y.container # <<>>
    /\ Rebuilt(x, y, today).node # y

\* the results of every aggregation query on one element
Queries(n) ==
  IF n.cid \in NutritionCids
  THEN [weight |-> IF n.cid = "Q" THEN weight(n) ELSE Zero,
        nutrient_value |-> [id \in NutrientIds |-> nutrient_value(n, id)],
        macro_weights |-> macro_weights(n),
        unique_foods |-> unique_foods(n)]
  ELSE [muscle_sessions |-> muscle_sessions(n),
        performance_results |->
          [rt \in ResultsTypes |->
             [ep \in ExerciseProperties |-> performance_results(n, rt, ep)]]]

(* C2: the element rebuilt by set_state(x.state()) answers every           *)
(* aggregation query as x does, on the element and on each corresponding   *)
(* descendant, also when x or a descendant is a Quantity or Session that   *)
(* holds no tuple.                                                          *)
C2_ObservationalRoundTrip ==
  \A x \in Elements : \A today \in Todays :
    LET y == Rebuilt(x, build_element(x.cid, ItemIdOf(x), today), today).node
    IN  \A p \in Paths(x) : Queries(NodeAt(y, p)) = Queries(NodeAt(x, p))

(* C3: the template state of a Meal has the tag, the child states (each    *)
(* child's full state) and the description of its state, and the time      *)
(* "00:00" whatever time the Meal holds.                                    *)
C3_MealTemplate ==
  \A m \in ElementsOf({"M"}) :
    LET t == template_state(m)
    IN  /\ Len(t) = 4
        /\ t[1] = "M"
        /\ Len(t[2]) = Len(m.container)
        /\ \A i \in 1..Len(m.container) : t[2][i] = state(m.container[i])
        /\ t[3] = m.description
        /\ t[4] = <<"0", "0", ":", "0", "0">>

\* a Meal at another time than 00:00 that holds an Ingredient with a Quantity
C3_Witness ==
  \E m \in ElementsOf({"M"}) :
    /\ m.time # <<0, 0>>
    /\ \E i \in 1..Len(m.container) :
         /\ m.container[i].cid = "I"
         /\ m.container[i].container # <<>>
         /\ m.container[i].container[1].container # <<>>

(* C4 as claimed: the template state of a Diet is its state in every       *)
(* position except the date, which is None.                                 *)
C4_DietTemplateOnlyDate ==
  \A d \in ElementsOf({"D"}) :
    template_state(d) = [state(d) EXCEPT ![4] = None]

(* C4 as amended: the template state of a Diet has the tag and the         *)
(* description of its state and the date None, and each child entry is     *)
(* the state of the Meal with the time "00:00".                             *)
C4_DietTemplate ==
  \A d \in ElementsOf({"D"}) :
    LET t == template_state(d)
        s == state(d)
    IN  /\ Len(t) = 4
        /\ t[1] = "D"
        /\ t[3] = s[3]
        /\ t[4] = None
        /\ Len(t[2]) = Len(s[2])
        /\ \A i \in 1..Len(s[2]) :
             t[2][i] = [s[2][i] EXCEPT ![4] = <<"0", "0", ":", "0", "0">>]

\* a Diet with two Meals at different times
C4_Witness ==
  \E d \in ElementsOf({"D"}) :
    /\ Len(d.container) = 2
    /\ d.container[1].time # d.container[2].time
    /\ d.date \notin Todays

\* the concatenation of a sequence of sequences
RECURSIVE Concat(_)
Concat(seqs) == IF seqs = <<>> THEN <<>> ELSE Head(seqs) \o Concat(Tail(seqs))

\* the entries of one tag in a state array, and the elements of one class
\* id in an element, both in tree order (the search stops at a match)
RECURSIVE EntriesOf(_, _)
EntriesOf(tag, st) ==
  IF st[1] = tag THEN <<st>>
  ELSE IF st[1] \in {"Q", "S"} THEN <<>>
  ELSE Concat([i \in 1..Len(st[2]) |-> EntriesOf(tag, st[2][i])])

RECURSIVE Descendants(_, _)
Descendants(cid, n) ==
  IF n.cid = cid THEN <<n>>
  ELSE IF IsLeaf(n) THEN <<>>
  ELSE Concat([i \in 1..Len(n.container) |-> Descendants(cid, n.container[i])])

(* C5: in the template state of an Activity, Workout, Cycle or Program     *)
(* every Activity entry is ["A", [], itemid]: the Activities stay in       *)
(* order with their item ids, and no Session entry, so no effort,          *)
(* intensity or note, is left, however many Sessions the Activity held.    *)
C5_NoSessionInTemplate ==
  \A n \in ElementsOf({"A", "W", "C", "P"}) :
    LET entries == EntriesOf("A", template_state(n))
        acts == Descendants("A", n)
    IN  /\ Len(entries) = Len(acts)
        /\ \A i \in 1..Len(acts) : entries[i] = <<"A", <<>>, acts[i].itemid>>
        /\ EntriesOf("S", template_state(n)) = <<>>

\* a Workout whose Activity holds two Sessions with measurements
C5_Witness ==
  \E w \in ElementsOf({"W"}) : \E i \in 1..Len(w.container) :
    /\ Len(w.container[i].container) = 2
    /\ \A j \in 1..2 : effort(w.container[i].container[j]) > 0
    /\ EntriesOf("S", state(w)) # <<>>

\* the descriptions of the Workouts, Cycles and Programs of a state array
\* and of an element, in tree order
RECURSIVE StateDescriptions(_)
StateDescriptions(st) ==
  IF st[1] \notin {"W", "C", "P"} THEN <<>>
  ELSE <<st[3]>> \o Concat([i \in 1..Len(st[2]) |-> StateDescriptions(st[2][i])])

RECURSIVE Descriptions(_)
Descriptions(n) ==
  IF n.cid \notin {"W", "C", "P"} THEN <<>>
  ELSE <<n.description>>
         \o Concat([i \in 1..Len(n.container) |-> Descriptions(n.container[i])])

(* C6: in the template state of a Workout, Cycle or Program every Workout  *)
(* entry has the period [None, None], a Program's start is None, and the   *)
(* descriptions of Workouts, Cycles and Programs are those of the          *)
(* elements.                                                                *)
C6_FitnessTemplateDates ==
  \A n \in ElementsOf({"W", "C", "P"}) :
    LET t == template_state(n)
        workouts == EntriesOf("W", t)
    IN  /\ Len(workouts) = Len(Descendants("W", n))
        /\ \A i \in 1..Len(workouts) : workouts[i][4] = <<None, None>>
        /\ n.cid = "P" => t[4] = None
        /\ StateDescriptions(t) = Descriptions(n)

\* a Program, a Cycle and a Workout that all hold edited descriptions and
\* dates
C6_Witness ==
  /\ HasBuild
  /\ build.cid = "P"
  /\ build.description = "Bulk"
  /\ build.start \notin Todays
  /\ \E c \in ElementsOf({"C"}) : c.description = "Week 1"
  /\ \E w \in ElementsOf({"W"}) :
       /\ w.description = "Push"
       /\ began(w)[1] = 2017

(* C7 as claimed: template_state is defined for Quantity, Ingredient and   *)
(* Recipe and returns their state.                                          *)
C7_LeafTemplatesAreStates ==
  \A n \in ElementsOf({"Q", "I", "R"}) : template_state(n) = state(n)

(* C7 as amended: the template state of a Recipe has the tag, the child    *)
(* states, the description and the portion of its state; Quantity and      *)
(* Ingredient define no template_state (the call raises AttributeError),   *)
(* and the template state of a Recipe or Meal holds their state.           *)
C7_RecipeTemplate ==
  /\ \A r \in ElementsOf({"R"}) :
       LET t == template_state(r)
       IN  /\ Len(t) = 4
           /\ t[1] = "R"
           /\ t[2] = [i \in 1..Len(r.container) |-> state(r.container[i])]
           /\ t[3] = r.description
           /\ t[4] = r.portion
           /\ t = state(r)
  /\ \A n \in ElementsOf({"Q", "I"}) : template_state(n) = AttributeError
  /\ \A n \in ElementsOf({"R", "M"}) :
       EntriesOf("I", template_state(n)) = EntriesOf("I", state(n))

\* a Recipe with an edited portion that holds an Ingredient with a Quantity
C7_Witness ==
  \E r \in ElementsOf({"R"}) :
    /\ r.portion # Recipe.portion
    /\ \E i \in 1..Len(r.container) :
         /\ r.container[i].cid = "I"
         /\ r.container[i].container # <<>>
         /\ r.container[i].container[1].container # <<>>

\* the indices of the unit sequences of a Quantity's Food whose unit is the
\* unit of the Quantity
MatchingSequences(q) ==
  {i \in 1..Len(fdref[q.itemid][3]) : fdref[q.itemid][3][i][2] = unit(q)}

Least(S) == CHOOSE i \in S : \A j \in S : i <= j

(* C8: the weight of a Quantity is 0 when it holds no tuple, the amount    *)
(* when the unit is "g", 0 when no unit sequence of its Food has the unit, *)
(* and else amount / sequence amount * sequence weight for the first unit  *)
(* sequence with the unit, in the order the Food lists them.               *)
C8_QuantityWeight ==
  \A q \in ElementsOf({"Q"}) :
    LET w == weight(q)
        sequences == fdref[q.itemid][3]
    IN  /\ w[2] > 0
        /\ q.container = <<>> \/ amount(q) = 0 => w = Zero
        /\ q.container # <<>> /\ unit(q) = "g" => w = <<amount(q), 1>>
        /\ q.container # <<>> /\ unit(q) # "g" /\ MatchingSequences(q) = {}
             => w = Zero
        /\ q.container # <<>> /\ unit(q) # "g" /\ MatchingSequences(q) # {}
             => LET first == sequences[Least(MatchingSequences(q))]
                IN  w[1] * first[1] = amount(q) * first[3] * w[2]

\* a Quantity in a unit that two unit sequences of its Food have, with
\* different weights
C8_Witness ==
  \E q \in ElementsOf({"Q"}) :
    /\ q.container # <<>>
    /\ unit(q) # "g"
    /\ \E i, j \in MatchingSequences(q) :
         /\ i < j
         /\ fdref[q.itemid][3][i][3] * fdref[q.itemid][3][j][1]
              # fdref[q.itemid][3][j][3] * fdref[q.itemid][3][i][1]
    /\ weight(q) # Zero

RECURSIVE SumOf(_)
SumOf(values) == IF values = <<>> THEN Zero ELSE RAdd(Head(values), SumOf(Tail(values)))

\* weight / 100 * value of one Quantity, 0 when its Food has no entry for
\* the nutrient
Contribution(q, nutrient_id) ==
  IF nutrient_id \in DOMAIN fnref[q.itemid]
  THEN Rat(weight(q)[1] * fnref[q.itemid][nutrient_id], weight(q)[2] * 100)
  ELSE Zero

\* the contributions of the Quantities under an element, each multiplied by
\* consumed / prepared of every Recipe from the element down to it
RECURSIVE ScaledContributions(_, _, _)
ScaledContributions(n, nutrient_id, multiplier) ==
  IF n.cid = "Q" THEN <<RMul(multiplier, Contribution(n, nutrient_id))>>
  ELSE LET below == IF n.cid = "R"
                    THEN RMul(multiplier, Rat(n.portion[1], n.portion[2]))
                    ELSE multiplier
       IN  Concat([i \in 1..Len(n.container) |->
                     ScaledContributions(n.container[i], nutrient_id, below)])

\* the Ingredient of the example: Quantities [2, "g"] and [1, "cup"] of a
\* Food with the value 10 and the first cup sequence [1, "cup", 240]
ExampleIngredient(ing) ==
  /\ ing.cid = "I"
  /\ ing.itemid = "F1"
  /\ Len(ing.container) = 2
  /\ ing.container[1].container = << <<2, "g">> >>
  /\ ing.container[2].container = << <<1, "cup">> >>

(* C9 as claimed: the nutrient value of an element is the sum, over the    *)
(* Quantities under it, of weight / 100 * value.                            *)
C9_PlainSum ==
  \A n \in ElementsOf(NutritionCids) : \A nutrient_id \in NutrientIds :
    nutrient_value(n, nutrient_id) =
      SumOf([i \in 1..Len(Descendants("Q", n)) |->
               Contribution(Descendants("Q", n)[i], nutrient_id)])

(* C9 as amended: the nutrient value of an element is the sum, over the    *)
(* Quantities under it, of weight / 100 * value (0 without an entry for    *)
(* the nutrient) times consumed / prepared of every Recipe from the        *)
(* element down to the Quantity; the example Ingredient has the value      *)
(* 24.2.                                                                    *)
C9_NutrientValue ==
  \A n \in ElementsOf(NutritionCids) :
    /\ \A nutrient_id \in NutrientIds :
         nutrient_value(n, nutrient_id)
           = SumOf(ScaledContributions(n, nutrient_id, FromInt(1)))
    /\ ExampleIngredient(n) => nutrient_value(n, "203") = <<121, 5>>

\* the example Ingredient in a Recipe of which 3 of 2 prepared are consumed
C9_Witness ==
  \E r \in ElementsOf({"R"}) :
    /\ r.portion[1] # r.portion[2]
    /\ \E i \in 1..Len(r.container) : ExampleIngredient(r.container[i])

\* the sum of the nutrient values of the children of an element
ChildrenValue(n, nutrient_id) ==
  SumOf([i \in 1..Len(n.container) |-> nutrient_value(n.container[i], nutrient_id)])

(* C10: the macro weights and the nutrient values of a Recipe are the      *)
(* sums over its children times consumed / prepared (prepared > 0), and a  *)
(* Quantity of an Ingredient in a Recipe in a Recipe counts times the      *)
(* product of the two ratios.                                               *)
C10_RecipeScaling ==
  \A r \in ElementsOf({"R"}) :
    LET ratio == Rat(r.portion[1], r.portion[2])
    IN  /\ r.portion[2] > 0
        /\ \A nutrient_id \in NutrientIds :
             nutrient_value(r, nutrient_id) = RMul(ratio, ChildrenValue(r, nutrient_id))
        /\ \A macro_id \in {"203", "204", "205"} :
             macro_weights(r)[macro_id] =
               RMul(ratio, SumOf([i \in 1..Len(r.container) |->
                                    macro_weights(r.container[i])[macro_id]]))
        /\ \A i \in 1..Len(r.container) :
             LET inner == r.container[i]
             IN  /\ inner.cid = "R"
                 /\ Len(r.container) = 1
                 /\ \A k \in 1..Len(inner.container) : inner.container[k].cid = "I"
                 =>
                   \A nutrient_id \in NutrientIds :
                     nutrient_value(r, nutrient_id) =
                       RMul(Rat(r.portion[1] * inner.portion[1],
                                r.portion[2] * inner.portion[2]),
                            SumOf([k \in 1..Len(Descendants("Q", inner)) |->
                                     Contribution(Descendants("Q", inner)[k], nutrient_id)]))

\* a Recipe in a Recipe, both with consumed # prepared, and a Quantity with a
\* weight in it
C10_Witness ==
  \E r \in ElementsOf({"R"}) :
    /\ Len(r.container) = 1
    /\ r.container[1].cid = "R"
    /\ r.portion[1] # r.portion[2]
    /\ r.container[1].portion[1] # r.container[1].portion[2]
    /\ nutrient_value(r, "203") # Zero

RECURSIVE SumInts(_)
SumInts(values) == IF values = <<>> THEN 0 ELSE Head(values) + SumInts(Tail(values))

Greatest(S) == CHOOSE i \in S : \A j \in S : j <= i

\* the property values of an Exercise item under which a result is filed
ExerciseKeys(itemid, exercise_property) ==
  CASE exercise_property = "itemid" -> {itemid}
    [] exercise_property = "focusmuscle" -> {edref[itemid][2]}
    [] exercise_property = "tags" ->
         {edref[itemid][4][i] : i \in 1..Len(edref[itemid][4])}

\* the effort, or the effort times the intensity, of the data of a Session
Measured(ses, results_type) ==
  IF ses.container = <<>> THEN 0
  ELSE IF results_type = "effort" THEN ses.container[1][1]
  ELSE ses.container[1][1] * ses.container[1][2]

\* the sum over the Sessions of the Activities of a sequence that carry the
\* key
TotalUnder(activities, results_type, exercise_property, key) ==
  SumInts([i \in 1..Len(activities) |->
             IF key \in ExerciseKeys(activities[i].itemid, exercise_property)
             THEN SumInts([j \in 1..Len(activities[i].container) |->
                             Measured(activities[i].container[j], results_type)])
             ELSE 0])

\* the keys of the Activities of a sequence that hold a Session
KeysUnder(activities, exercise_property) ==
  UNION {ExerciseKeys(activities[i].itemid, exercise_property) :
           i \in {k \in 1..Len(activities) : activities[k].container # <<>>}}

(* C11: for the results types effort and magnitude, the value an Activity  *)
(* returns under each key, and the value under each key of the inner map   *)
(* of a Workout, is the sum of the effort (of effort times intensity) of   *)
(* the Sessions under it whose Exercise has the key; with tags the value   *)
(* is filed under each tag of the Exercise.                                 *)
C11_SummedResults ==
  \A results_type \in {"effort", "magnitude"} :
    \A exercise_property \in ExerciseProperties :
      /\ \A act \in ElementsOf({"A"}) :
           LET results == performance_results(act, results_type, exercise_property)
           IN  /\ DOMAIN results = KeysUnder(<<act>>, exercise_property)
               /\ \A key \in DOMAIN results :
                    results[key] =
                      TotalUnder(<<act>>, results_type, exercise_property, key)
      /\ \A w \in ElementsOf({"W"}) :
           LET results == performance_results(w, results_type, exercise_property)
           IN  \A began_string \in DOMAIN results :
                 /\ DOMAIN results[began_string]
                      = KeysUnder(w.container, exercise_property)
                 /\ \A key \in DOMAIN results[began_string] :
                      results[began_string][key] =
                        TotalUnder(w.container, results_type, exercise_property, key)

\* a Workout with two Activities of different Exercises that share a tag,
\* both with Sessions that hold data
C11_Witness ==
  \E w \in ElementsOf({"W"}) : \E i, j \in 1..Len(w.container) :
    /\ w.container[i].itemid # w.container[j].itemid
    /\ ExerciseKeys(w.container[i].itemid, "tags")
         \cap ExerciseKeys(w.container[j].itemid, "tags") # {}
    /\ Len(w.container[i].container) = 2
    /\ w.container[j].container # <<>>
    /\ Measured(w.container[i].container[1], "magnitude") > 0
    /\ Measured(w.container[j].container[1], "magnitude") > 0

\* the intensities of the Sessions with data of the Activities of a
\* sequence that carry the key
IntensitiesUnder(activities, exercise_property, key) ==
  UNION {{activities[i].container[j].container[1][2] :
            j \in {k \in 1..Len(activities[i].container) :
                     activities[i].container[k].container # <<>>}} :
           i \in {k \in 1..Len(activities) :
                    key \in ExerciseKeys(activities[k].itemid, exercise_property)}}

Stamp(dt) ==
  CASE dt = <<2018, 11, 30, 0, 0>> ->
         <<"2", "0", "1", "8", "-", "1", "1", "-", "3", "0", " ", "0", "0", ":", "0", "0">>
    [] dt = <<2017, 3, 9, 18, 30>> ->
         <<"2", "0", "1", "7", "-", "0", "3", "-", "0", "9", " ", "1", "8", ":", "3", "0">>

\* the values the maps of the Activities of a Workout hold under a key
ValuesUnder(w, results_type, exercise_property, key) ==
  [i \in {k \in 1..Len(w.container) :
            key \in DOMAIN performance_results(w.container[k], results_type,
                                               exercise_property)} |->
     performance_results(w.container[i], results_type, exercise_property)[key]]

RECURSIVE SumOver(_)
SumOver(f) ==
  IF DOMAIN f = {} THEN 0
  ELSE LET i == CHOOSE k \in DOMAIN f : TRUE
       IN  f[i] + SumOver([k \in DOMAIN f \ {i} |-> f[k]])

(* C13: the performance results of a Workout are the empty map when its    *)
(* Activities yield no key, and else a map with one key, the beginning of  *)
(* the Workout as "YYYY-MM-DD HH:MM", whose value merges the maps of the   *)
(* Activities key by key (sum for effort and magnitude, maximum for        *)
(* intensity).                                                              *)
C13_WorkoutResults ==
  \A w \in ElementsOf({"W"}) :
    \A results_type \in ResultsTypes, exercise_property \in ExerciseProperties :
      LET results == performance_results(w, results_type, exercise_property)
          keys == KeysUnder(w.container, exercise_property)
      IN  IF keys = {} THEN DOMAIN results = {}
          ELSE /\ DOMAIN results = {Stamp(w.period[1])}
               /\ DOMAIN results[Stamp(w.period[1])] = keys
               /\ \A key \in keys :
                    LET values == ValuesUnder(w, results_type, exercise_property, key)
                    IN  results[Stamp(w.period[1])][key] =
                          IF results_type = "intensity"
                          THEN Greatest({values[i] : i \in DOMAIN values})
                          ELSE SumOver(values)

\* a Workout whose only Activity holds no Session beside a Workout with an
\* edited period and an Activity with Sessions
C13_Witness ==
  \E v, w \in ElementsOf({"W"}) :
    /\ v.container # <<>>
    /\ KeysUnder(v.container, "itemid") = {}
    /\ w.period[1][1] = 2017
    /\ KeysUnder(w.container, "itemid") # {}

(* C14: the performance results of a Cycle or Program hold, for each       *)
(* Workout under it with a result, its timestamp with the inner map of     *)
(* that Workout alone; of the Workouts that share a timestamp the last in  *)
(* tree order supplies the entry.                                           *)
C14_KeyUnion ==
  \A n \in ElementsOf({"C", "P"}) :
    \A results_type \in ResultsTypes, exercise_property \in ExerciseProperties :
      LET results == performance_results(n, results_type, exercise_property)
          workouts == Descendants("W", n)
          contributing == {i \in 1..Len(workouts) :
                             KeysUnder(workouts[i].container, exercise_property) # {}}
      IN  /\ DOMAIN results = {Stamp(workouts[i].period[1]) : i \in contributing}
          /\ \A i \in contributing :
               LET began_string == Stamp(workouts[i].period[1])
                   last == Greatest({j \in contributing :
                                       Stamp(workouts[j].period[1]) = began_string})
               IN  results[began_string] =
                     performance_results(workouts[last], results_type,
                                         exercise_property)[began_string]

\* a Cycle with two Workouts that begin at the same time and have different
\* results
C14_Witness ==
  \E c \in ElementsOf({"C"}) :
    /\ Len(c.container) = 2
    /\ c.container[1].period[1] = c.container[2].period[1]
    /\ KeysUnder(c.container[1].container, "itemid") # {}
    /\ KeysUnder(c.container[2].container, "itemid") # {}
    /\ performance_results(c.container[1], "effort", "itemid")
         # performance_results(c.container[2], "effort", "itemid")

\* the Sessions of the Activities of a sequence whose Exercise has the focus
\* muscle
SessionsOn(activities, muscle) ==
  SumInts([i \in 1..Len(activities) |->
             IF edref[activities[i].itemid][2] = muscle
             THEN Len(activities[i].container) ELSE 0])

(* C15 as claimed: a Session with data returns {focus muscle: 1} and a     *)
(* Session without data {}; an Activity returns {focus muscle: number of   *)
(* its Sessions}, or {} without Sessions; Workout, Cycle and Program       *)
(* return the key-wise sum of the maps of their children.                  *)
C15_MuscleSessionsWithData ==
  /\ \A ses \in ElementsOf({"S"}) :
       /\ DOMAIN muscle_sessions(ses)
            = IF ses.container # <<>> THEN {edref[ses.itemid][2]} ELSE {}
       /\ \A muscle \in DOMAIN muscle_sessions(ses) : muscle_sessions(ses)[muscle] = 1
  /\ \A n \in ElementsOf({"A", "W", "C", "P"}) :
       LET activities == Descendants("A", n)
       IN  /\ DOMAIN muscle_sessions(n) =
                {edref[activities[i].itemid][2] :
                   i \in {k \in 1..Len(activities) : activities[k].container # <<>>}}
           /\ \A muscle \in DOMAIN muscle_sessions(n) :
                muscle_sessions(n)[muscle] = SessionsOn(activities, muscle)

(* C15 as amended: a Session returns {focus muscle: 1} with or without     *)
(* data; an Activity returns {focus muscle: number of its Sessions}, or {} *)
(* without Sessions; Workout, Cycle and Program return the key-wise sum of *)
(* the maps of their children, so each focus muscle has the number of      *)
(* Sessions, with or without data, of its Activities.                       *)
C15_MuscleSessions ==
  /\ \A ses \in ElementsOf({"S"}) :
       /\ DOMAIN muscle_sessions(ses) = {edref[ses.itemid][2]}
       /\ muscle_sessions(ses)[edref[ses.itemid][2]] = 1
  /\ \A n \in ElementsOf({"A", "W", "C", "P"}) :
       LET activities == Descendants("A", n)
       IN  /\ DOMAIN muscle_sessions(n) =
                {edref[activities[i].itemid][2] :
                   i \in {k \in 1..Len(activities) : activities[k].container # <<>>}}
           /\ \A muscle \in DOMAIN muscle_sessions(n) :
                muscle_sessions(n)[muscle] = SessionsOn(activities, muscle)
  /\ \A n \in ElementsOf({"W", "C", "P"}) :
       \A muscle \in DOMAIN muscle_sessions(n) :
         muscle_sessions(n)[muscle] =
           SumInts([i \in 1..Len(n.container) |->
                      IF muscle \in DOMAIN muscle_sessions(n.container[i])
                      THEN muscle_sessions(n.container[i])[muscle] ELSE 0])

\* a Workout with an Activity whose one Session holds no data and an
\* Activity of the same Exercise with two Sessions
C15_Witness ==
  \E w \in ElementsOf({"W"}) : \E i, j \in 1..Len(w.container) :
    /\ w.container[i].itemid = w.container[j].itemid
    /\ Len(w.container[i].container) = 1
    /\ w.container[i].container[1].container = <<>>
    /\ Len(w.container[j].container) = 2

\* the data tuples entered for a Quantity or a Session
LeafData(leaf) == IF leaf.cid = "Q" THEN PortionSizes ELSE Measurements

(* C16: the container of a Quantity or Session holds no or one tuple in    *)
(* every state, also after any further add_child or set_state on it, and   *)
(* add_child(t) on a leaf that holds a tuple leaves exactly the tuple t.   *)
C16_LeafHoldsOneTuple ==
  \A leaf \in ElementsOf({"Q", "S"}) :
    /\ Len(leaf.container) <= 1
    /\ \A t \in LeafData(leaf) :
         /\ add_child(leaf, t).container = <<t>>
         /\ \A u \in LeafData(leaf) : add_child(add_child(leaf, t), u).container = <<u>>
    /\ \A other \in ElementsOf({leaf.cid}) : \A today \in Todays :
         /\ Len(set_state(leaf, state(other), today).node.container) <= 1
         /\ \A t \in LeafData(leaf) :
              add_child(set_state(leaf, state(other), today).node, t).container = <<t>>

\* a Quantity or Session that holds a tuple, beside another of its class
\* that holds other data
C16_Witness ==
  \E q \in ElementsOf({"Q", "S"}) :
    /\ q.container # <<>>
    /\ \E t \in LeafData(q) : t # q.container[1]
    /\ \E other \in ElementsOf({q.cid}) : other.container # q.container

\* the capsules that break a rule of the kind they are imported as: a first
\* entry that is not the kind, or one broken rule of the properties
Violating(reftype) ==
  {cap_data \in Capsules : cap_data # <<>> /\ cap_data[1] # Str(reftype)}
    \cup BadFoodCapsules \cup BadExerciseCapsules

\* C17: the import of a data capsule that breaks a rule ends in an error that
\* load_data_capsule handles with a warning, and leaves the reference items
\* of the user as they were.
C17_ImportAllOrNothing ==
  [][(/\ imported'.outcome # "none"
      /\ imported'.capsule \in Violating(imported'.reftype))
       => /\ references' = references
          /\ imported'.outcome \in {"warned", "wrong kind"}]_vars

\* C18: for every reference item r of the user, Food or Exercise,
\* Reference(kind, data_capsule=r.datacapsule()) raises nothing and has the
\* description, group or focus muscle, unit sequences or units, and nutrient
\* content or tags of r.
C18_CapsuleRoundTrip ==
  \A i \in 1..Len(references) :
    LET r == references[i]
        made == Reference(r.reftype, datacapsule(r))
    IN  /\ made.exc = NoExc
        /\ datacapsule(made.info) = datacapsule(r)

\* the arrays made of x.state() by another tag (that of the Program, of the
\* Quantity, or no class id), by a further last entry and by a missing last
\* entry
ClassIds == NutritionCids \cup FitnessCids
OtherTags(x) == {"P", "Q", "X"} \ {x.cid}
Retagged(x) == LET own == state(x) IN {[own EXCEPT ![1] = tag] : tag \in OtherTags(x)}
TooLong(x) == Append(state(x), "more")
TooShort(x) == Front(state(x))
\* x.state() with a date or time field that strptime cannot parse
Unparsable(x) ==
  LET own == state(x)
  IN  IF x.cid = "W"
      THEN {[own EXCEPT ![4] = <<own[4][1], <<"1", "1", "p", "m">> >>],
            [own EXCEPT ![4] = <<<<"2", "0", "1", "8">>, own[4][2]>>]}
      ELSE IF x.cid \in {"M", "D", "P"}
      THEN {[own EXCEPT ![4] = <<"n", "o", "o", "n">>],
            [own EXCEPT ![4] = <<"2", "5", ":", "0", "0">>],
            [own EXCEPT ![4] = <<"2", "0", "1", "8", "-", "0", "2", "-", "3", "0">>]}
      ELSE {}
\* the elements set_state is tried on: the Build Parent, which is of any of
\* the six classes of create_build, and the items and leaves under it
Receivers == {e \in Elements : e = build \/ e.cid \in {"Q", "I", "S", "A"}}
Malformed(x) == Retagged(x) \cup {TooLong(x), TooShort(x)} \cup Unparsable(x)

\* C19 as stated: set_state on an element of any class raises an exception
\* whenever the array has another tag than the class id, an entry too many
\* or too few, or a date or time string that cannot be parsed.
C19_MalformedStateRaises ==
  \A x \in Receivers : \A today \in Todays : \A new_state \in Malformed(x) :
    set_state(x, new_state, today).exc # NoExc

\* C19: set_state raises ValueError on a date or time string that cannot be
\* parsed (Meal, Diet, Workout, Program) and IndexError on an array without
\* its last entry for Recipe, Meal, Diet, Workout, Cycle and Program; no
\* class reads the tag, so an array with another tag is taken as one with
\* the own tag; a further last entry is ignored by the composites and kept
\* in the tuple of a Quantity or Session; Quantity, Ingredient, Session and
\* Activity return on an array without its last entry.
C19_SetStateErrors ==
  \A x \in Receivers : \A today \in Todays :
    LET done == set_state(x, state(x), today)
    IN
    /\ \A new_state \in Retagged(x) : set_state(x, new_state, today) = done
    /\ done.exc = NoExc
    /\ IF IsLeaf(x)
       THEN set_state(x, TooLong(x), today) = Returned(add_child(x, Tail(TooLong(x))))
       ELSE set_state(x, TooLong(x), today) = done
    /\ set_state(x, TooShort(x), today).exc
         = IF x.cid \in {"Q", "I", "S", "A"} THEN NoExc ELSE "IndexError"
    /\ \A new_state \in Unparsable(x) :
         set_state(x, new_state, today).exc = "ValueError"

\* a Build Parent that is a Meal, Diet, Workout or Program and holds
\* children, with a Quantity or Session under it that holds a tuple
C19_Witness ==
  /\ \E x \in Receivers :
       /\ x.cid \in {"M", "D", "W", "P"}
       /\ x.container # <<>>
       /\ \E new_state \in Unparsable(x) : \E today \in Todays :
            set_state(x, new_state, today).exc = "ValueError"
  /\ \E leaf \in ElementsOf({"Q", "S"}) :
       /\ leaf.container # <<>>
       /\ \E new_state \in Retagged(leaf) : \E today \in Todays :
            set_state(leaf, new_state, today).exc = NoExc

\* every container under n holds only the child classes of BUILD_ELEMENTS
RECURSIVE KindsKept(_)
KindsKept(n) ==
  \/ IsLeaf(n)
  \/ \A i \in 1..Len(n.container) :
       /\ n.container[i].cid \in SeqRange(BUILD_ELEMENTS[n.cid])
       /\ KindsKept(n.container[i])

\* x.state() with the tag of its i-th child entry replaced
WithChildTag(x, i, tag) == [state(x) EXCEPT ![2][i][1] = tag]

\* the tags tried on the i-th child entry of x: all ten, but for a Recipe or
\* Meal only those whose class can take the entries of the child's state (an
\* entry that lists child states, a Recipe entry with a portion)
TagsFor(x, i) ==
  LET child == x.container[i]
  IN  IF x.cid \notin {"R", "M"} THEN ClassIds
      ELSE IF child.container # <<>> THEN {"Q", "I", "R", "S", "A"}
      ELSE IF child.cid = "R" THEN ClassIds \ {"M", "D", "W", "P"}
      ELSE ClassIds

Holders(oid) ==
  {<<p, i>> \in Alive \X (1..MaxObjects) :
     i <= Len(objects[p].container) /\ objects[p].container[i] = oid}

\* C21: in every state of the Build Manager no object is held by two
\* containers or twice by one, no object is under itself, the Build Parent
\* is held by no container, and the copied element is held by no container
\* and shares no object with the build, so that the one paste, which sets
\* copied_element to None, adds objects the build does not hold yet.
C21_PureTree ==
  /\ \A oid \in Alive : Cardinality(Holders(oid)) <= 1
  /\ \A oid \in Alive : \A child \in held(oid) : oid \notin Under(objects, child)
  /\ viewer.buildparent # NoObject => Holders(viewer.buildparent) = {}
  /\ viewer.copied # NoObject =>
       /\ Holders(viewer.copied) = {}
       /\ Under(objects, viewer.copied) \cap Shown = {}
  /\ Alive = Shown \cup Under(objects, viewer.copied)

\* a Recipe that holds a Recipe is shown while the copy of the outer Recipe,
\* two objects of its own, waits in the Copied Viewer
C21_Witness ==
  /\ viewer.buildparent # NoObject /\ viewer.copied # NoObject
  /\ objects[viewer.buildparent].cid = "R"
  /\ \E child \in held(viewer.buildparent) : objects[child].cid = "R"
  /\ objects[viewer.copied].cid = "R"
  /\ Cardinality(Under(objects, viewer.copied)) = 2

\* the objects of the Program records (User._recordobjects)
ProgramRecords ==
  {set_state(build_element("P", NoneId, today), ureco["P"][date], today).node :
     date \in DOMAIN ureco["P"], today \in Todays}

\* C22: no Program record is stored in which a Workout begins before the
\* start date of the Program or in which two Workouts begin at the same date
\* and time.
C22_NoInvalidProgramRecord ==
  \A program \in ProgramRecords :
    LET begans == cycle_begans(program.container)
    IN  /\ \A i \in 1..Len(begans) : ~DateBefore(SubSeq(begans[i], 1, 3), program.start)
        /\ ~HasDuplicates(begans)

\* the class ids and item ids handed to the factory
FactoryCids == ClassIds \cup {"X", "q", ""}
FactoryIds == FoodIds \cup ExerciseIds \cup {NoneId}

\* C23: build_element(cid, item_id) returns None for a cid that is no class
\* id and for Q, I, S and A without an item id; otherwise it returns an
\* element of the class of cid with an empty container, which carries the
\* item id for Q, I, S and A; R, M, D, W, C and P are built with and without
\* an item id. The Build Parent made by create_build and the items made by
\* add_item are such elements.
C23_Factory ==
  /\ \A cid \in FactoryCids : \A item_id \in FactoryIds : \A today \in Todays :
       LET element == build_element(cid, item_id, today)
       IN  IF cid \notin ClassIds \/ (cid \in {"Q", "I", "S", "A"} /\ item_id = NoneId)
           THEN element = NoElement
           ELSE /\ element.cid = cid
                /\ element.container = <<>>
                /\ cid \in {"Q", "I", "S", "A"} => element.itemid = item_id
                /\ cid \notin {"Q", "I", "S", "A"} =>
                     element = build_element(cid, NoneId, today)
  /\ \A e \in Elements :
       build_element(e.cid, ItemIdOf(e), <<1, 1, 1>>).cid = e.cid

\* a build that holds a Quantity or Session as the factory returned it, under
\* an Ingredient or Activity made with the same item id
C23_Witness ==
  \E item \in ElementsOf({"I", "A"}) :
    /\ item.container # <<>>
    /\ item.container[1] = build_element(BUILD_ELEMENTS[item.cid][1], item.itemid, <<1, 1, 1>>)
    /\ build_element(item.cid, NoneId, <<1, 1, 1>>) = NoElement

\* an Activity none of whose Sessions holds data
WithoutData(act) ==
  \A i \in 1..Len(act.container) : act.container[i].container = <<>>

(* C24 as claimed: performance_results of an Activity is the empty map     *)
(* whenever none of its Sessions holds data, without Sessions and with     *)
(* Sessions that are all empty, for every results type and property.       *)
C24_EmptyWithoutData ==
  \A act \in ElementsOf({"A"}) :
    \A results_type \in ResultsTypes, exercise_property \in ExerciseProperties :
      WithoutData(act)
        => Activity_performance_results(act, results_type, exercise_property) = EmptyDict

(* C24 as amended: performance_results of an Activity is the empty map     *)
(* when the Activity has no Session; when it has Sessions that are all     *)
(* empty it maps every key of the Exercise property to 0, for every        *)
(* results type and property.                                              *)
C24_EmptyWithoutSessions ==
  \A act \in ElementsOf({"A"}) :
    \A results_type \in ResultsTypes, exercise_property \in ExerciseProperties :
      LET performance == Activity_performance_results(act, results_type, exercise_property)
      IN  /\ act.container = <<>> => performance = EmptyDict
          /\ act.container # <<>> /\ WithoutData(act)
               => /\ DOMAIN performance = property_keys(act, exercise_property)
                  /\ \A key \in DOMAIN performance : performance[key] = 0

\* an Activity whose only Session holds no data beside an Activity without
\* Sessions
C24_Witness ==
  \E act, bare \in ElementsOf({"A"}) :
    /\ Len(act.container) = 1
    /\ act.container[1].container = <<>>
    /\ property_keys(act, "tags") # {}
    /\ bare.container = <<>>

(* C25: has_ingredient and has_quantity (has_activity and has_session)     *)
(* return a boolean on every element of their hierarchy, and the boolean   *)
(* is the OR over the subtree: whether the element or a constituent of it  *)
(* is of the kind asked for; so a Quantity has no Ingredient and a Session *)
(* has no Activity, with or without a data tuple.                          *)
C25_RecursiveOr ==
  /\ \A n \in ElementsOf({"Q", "I", "R", "M", "D"}) :
       /\ has_ingredient(n) = Answered(Descendants("I", n) # <<>>)
       /\ has_quantity(n) = Answered(Descendants("Q", n) # <<>>)
  /\ \A n \in ElementsOf({"S", "A", "W", "C", "P"}) :
       /\ has_activity(n) = Answered(Descendants("A", n) # <<>>)
       /\ has_session(n) = Answered(Descendants("S", n) # <<>>)

(* C26: move_child of the child at an index i to i + direction, where     *)
(* that is an index of the container, puts the child at i + direction,     *)
(* keeps the length and the set of children of the container and keeps    *)
(* the order of the other children; and every move that the Build Manager  *)
(* enables on a child of an element of the build is such a move.           *)
C26_MoveChild ==
  \A parent \in Elements \ ElementsOf({"Q", "S"}) :
    \A index \in 1..Len(parent.container), direction \in {-1, 1} :
      LET moved == move_child(parent, index, direction).container
          new_index == index + direction
      IN  /\ move_enabled(parent, index, direction)
               => new_index \in 1..Len(parent.container)
          /\ new_index \in 1..Len(parent.container)
               => /\ moved[new_index] = parent.container[index]
                  /\ Len(moved) = Len(parent.container)
                  /\ SeqRange(moved) = SeqRange(parent.container)
                  /\ RemoveAt(moved, new_index) = RemoveAt(parent.container, index)
                  /\ move_child(parent, index, direction)
                       = [parent EXCEPT !.container = moved]

\* an element with three different children: both moves are enabled on the
\* second child, one on the first and on the third, and a move changes the
\* order
C26_Witness ==
  \E parent \in Elements \ ElementsOf({"Q", "S"}) :
    /\ Len(parent.container) = 3
    /\ Cardinality(SeqRange(parent.container)) = 3
    /\ move_enabled(parent, 2, -1) /\ move_enabled(parent, 2, 1)
    /\ ~move_enabled(parent, 1, -1) /\ ~move_enabled(parent, 3, 1)
    /\ move_child(parent, 2, -1).container[1] = parent.container[2]
    /\ move_child(parent, 2, -1).container # parent.container

\* the paths of the Recipes of an element
RecipePaths(n) == {path \in Paths(n) : NodeAt(n, path).cid = "R"}

\* the state of the Build Parent with nothing prepared of the Recipe at a
\* path, set on a new element of the class of the Build Parent
Unprepared(path) ==
  LET recipe == NodeAt(build, path)
      new_state == state(ReplaceAt(build, path, [recipe EXCEPT !.portion[2] = 0]))
  IN  set_state(build_element(build.cid, NoneId, <<1, 1, 1>>), new_state, <<1, 1, 1>>)

(* C27: set_state of a Recipe, on its own or as a constituent of a Recipe, *)
(* Meal or Diet, takes a portion with a prepared amount of 0 without       *)
(* raising, and after it macro_weights and nutrient_value of that Recipe   *)
(* and of every element it is a constituent of raise ZeroDivisionError,    *)
(* with or without children in the Recipe.                                 *)
C27_NothingPrepared ==
  HasBuild /\ build.cid \in {"R", "M", "D"} =>
    \A path \in RecipePaths(build) :
      LET done == Unprepared(path)
      IN  /\ done.exc = NoExc
          /\ NodeAt(done.node, path).cid = "R"
          /\ prepared(NodeAt(done.node, path)) = 0
          /\ \A k \in 0..Len(path), method \in {"macro_weights", "nutrient_value"} :
               raised_by(NodeAt(done.node, SubSeq(path, 1, k)), method)
                 = "ZeroDivisionError"

\* a Meal or Diet with a Recipe that has no children and a sibling before
\* it: set_state takes a state with nothing prepared of the Recipe, and
\* macro_weights of the Build Parent, which returned, now raises
C27_Witness ==
  /\ HasBuild /\ build.cid \in {"M", "D"}
  /\ \E path \in RecipePaths(build) :
       /\ NodeAt(build, path).container = <<>>
       /\ Last(path) > 1
       /\ raised_by(build, "macro_weights") = NoExc
       /\ Unprepared(path).exc = NoExc
       /\ raised_by(Unprepared(path).node, "macro_weights") = "ZeroDivisionError"

\* an element whose item ids are in no reference dictionary
RECURSIVE Unreferenced(_)
Unreferenced(n) ==
  IF n.cid \in {"Q", "S"} THEN [n EXCEPT !.itemid = "X0"]
  ELSE LET children == [i \in 1..Len(n.container) |-> Unreferenced(n.container[i])]
       IN  IF n.cid \in {"I", "A"}
           THEN [n EXCEPT !.itemid = "X0", !.container = children]
           ELSE [n EXCEPT !.container = children]

NutritionQueries == {"nutrient_value", "macro_weights"}
FitnessQueries ==
  {"muscle_sessions", "performance_results", "unique_focusmuscles", "unique_tags"}

(* C28 as claimed: with an item id that the reference dictionary does not  *)
(* hold, weight of a Quantity with a unit other than gram, nutrient_value  *)
(* and macro_weights of a Quantity and of every element it is a            *)
(* constituent of, and muscle_sessions, performance_results by focus       *)
(* muscle or tags, unique_focusmuscles and unique_tags of a Session, an    *)
(* Activity and every element they are constituents of raise KeyError.     *)
C28_AlwaysKeyFault ==
  /\ \A q \in ElementsOf({"Q"}) :
       q.container # <<>> /\ unit(q) # "g" => key_fault(Unreferenced(q), "weight")
  /\ \A n \in ElementsOf({"Q", "I", "R", "M", "D"}) :
       Descendants("Q", n) # <<>>
         => \A query \in NutritionQueries : key_fault(Unreferenced(n), query)
  /\ \A n \in ElementsOf({"S", "A", "W", "C", "P"}) :
       Descendants("A", n) # <<>> \/ n.cid = "S"
         => \A query \in FitnessQueries : key_fault(Unreferenced(n), query)

\* the Activities of an element that hold a Session
Performed(n) ==
  LET activities == Descendants("A", n)
  IN  {i \in 1..Len(activities) : activities[i].container # <<>>}

(* C28 as amended: with an item id that the reference dictionary does not  *)
(* hold, weight of a Quantity raises KeyError when the Quantity holds an   *)
(* amount other than 0 in a unit other than gram; nutrient_value and       *)
(* macro_weights of a Quantity and of every element it is a constituent of *)
(* raise no KeyError and return 0; unique_focusmuscles and unique_tags     *)
(* raise KeyError on a Session, an Activity and every element with an      *)
(* Activity; muscle_sessions raises it on a Session and on an Activity and *)
(* its ancestors when the Activity has a Session, and returns {} on an     *)
(* Activity without Sessions; performance_results by focus muscle or tags  *)
(* raises it on a Session that holds data and on an Activity and its       *)
(* ancestors when the Activity has a Session, and returns {} on a Session  *)
(* without data and on an Activity without Sessions.                       *)
C28_KeyFaults ==
  /\ \A q \in ElementsOf({"Q"}) :
       key_fault(Unreferenced(q), "weight") <=> amount(q) # 0 /\ unit(q) # "g"
  /\ \A n \in ElementsOf({"Q", "I", "R", "M", "D"}) :
       LET u == Unreferenced(n)
       IN  /\ \A query \in NutritionQueries : ~key_fault(u, query)
           /\ \A nutrient_id \in NutrientIds : nutrient_value(u, nutrient_id) = Zero
           /\ macro_weights(u) = [nutrient_id \in {"203", "204", "205"} |-> Zero]
  /\ \A n \in ElementsOf({"S", "A", "W", "C", "P"}) :
       LET u == Unreferenced(n)
       IN  /\ \A query \in {"unique_focusmuscles", "unique_tags"} :
                key_fault(u, query) <=> Descendants("A", n) # <<>> \/ n.cid = "S"
           /\ key_fault(u, "muscle_sessions") <=> Performed(n) # {} \/ n.cid = "S"
           /\ key_fault(u, "performance_results")
                <=> Performed(n) # {} \/ (n.cid = "S" /\ n.container # <<>>)
           /\ n.cid = "A" /\ n.container = <<>> => muscle_sessions(u) = EmptyDict
           /\ n.cid \in {"S", "A"} /\ n.container = <<>>
                => \A results_type \in ResultsTypes :
                     performance_results(u, results_type, "focusmuscle") = EmptyDict

\* an Ingredient with a Quantity in a unit other than gram and a nutrient
\* value other than 0: without the reference, weight of the Quantity raises
\* KeyError and the nutrient value of the Ingredient is 0
C28_Witness ==
  \E ing \in ElementsOf({"I"}) :
    /\ ing.container # <<>>
    /\ key_fault(Unreferenced(ing.container[1]), "weight")
    /\ nutrient_value(ing, "203") # Zero
    /\ ~key_fault(Unreferenced(ing), "nutrient_value")
    /\ nutrient_value(Unreferenced(ing), "203") = Zero

\* the date or time field of a Meal, Diet, Workout or Program
Dated(x) ==
  CASE x.cid = "M" -> x.time
    [] x.cid = "D" -> x.date
    [] x.cid = "W" -> x.period
    [] x.cid = "P" -> x.start

\* x.state() with another description, without its first child state and
\* with a date or time field that strptime cannot parse
Undated(x) ==
  {[new_state EXCEPT ![2] = IF @ = <<>> THEN @ ELSE Tail(@), ![3] = "renamed"] :
     new_state \in Unparsable(x)}

\* a child state of x on which the set_state of the child raises: for a
\* Recipe or Meal an entry of no class, for a Diet a Meal state with a time
\* that cannot be parsed, for a Cycle a Workout state with such a period,
\* for a Program a Cycle state without description
FailingEntry(x, child_state) ==
  CASE x.cid \in {"R", "M"} -> [child_state EXCEPT ![1] = "X"]
    [] x.cid = "D" -> [child_state EXCEPT ![4] = <<"n", "o", "o", "n">>]
    [] x.cid = "C" -> [child_state EXCEPT ![4][2] = <<"1", "1", "p", "m">>]
    [] x.cid = "P" -> Front(child_state)

\* x.state() with another description and a failing i-th child state
FailingAt(x, i) ==
  [state(x) EXCEPT ![2][i] = FailingEntry(x, @), ![3] = "renamed"]

(* C29: set_state of a Meal, Diet, Workout or Program that raises on its   *)
(* date or time string has replaced the children by those of the new       *)
(* array and has set the new description, and has left the date or time    *)
(* as it was; a set_state that raises in the set_state of a child state    *)
(* leaves in the container the children of the child states before it and  *)
(* leaves the description and the other fields of the element as they      *)
(* were.                                                                   *)
C29_SetStateNotAtomic ==
  HasBuild =>
    \A today \in Todays :
      /\ build.cid \in {"M", "D", "W", "P"} =>
           \A new_state \in Undated(build) :
             LET done == set_state(build, new_state, today)
             IN  /\ done.exc = "ValueError"
                 /\ child_states(done.node) = new_state[2]
                 /\ done.node.description = "renamed"
                 /\ Dated(done.node) = Dated(build)
      /\ build.cid \in {"R", "M", "D", "C", "P"} =>
           \A i \in 1..Len(build.container) :
             LET done == set_state(build, FailingAt(build, i), today)
             IN  /\ done.exc # NoExc
                 /\ child_states(done.node) = SubSeq(child_states(build), 1, i - 1)
                 /\ [done.node EXCEPT !.container = build.container] = build

\* a Diet or Program with two children and a description of its own, on which
\* set_state raises for the date string and for the second child state
C29_Witness ==
  /\ HasBuild /\ build.cid \in {"D", "P"}
  /\ Len(build.container) = 2
  /\ build.description # "(unnamed)"
  /\ \E today \in Todays :
       /\ \E new_state \in Undated(build) :
            /\ set_state(build, new_state, today).exc = "ValueError"
            /\ Len(set_state(build, new_state, today).node.container) = 1
       /\ set_state(build, FailingAt(build, 2), today).exc # NoExc
       /\ Len(set_state(build, FailingAt(build, 2), today).node.container) = 1

\* the values of a dictionary with item ids as keys, in the order of the ids
InOrder(data_dict) ==
  LET ids == sorted_ints({int(key) : key \in DOMAIN data_dict})
  IN  [i \in 1..Len(ids) |-> data_dict[str(ids[i])]]

(* C30: the item ids of the templates of a class are "101" to              *)
(* str(100 + n) for the n templates stored, and n is at most the number of *)
(* ids from "101" to the last id; the template objects have the same ids,  *)
(* and each is the element that set_state builds from the state stored     *)
(* under its id; remove_template keeps the other templates in their order, *)
(* and add_template on an inventory with a template under the last id      *)
(* returns False and changes neither dictionary.                           *)
C30_ConsecutiveTemplateIds ==
  \A cid \in DOMAIN utemp :
    LET n == Cardinality(DOMAIN utemp[cid])
    IN  /\ n <= MaxTemplates
        /\ DOMAIN utemp[cid] = {str(100 + i) : i \in 1..n}
        /\ DOMAIN templateobjects[cid] = DOMAIN utemp[cid]
        /\ \A tid \in DOMAIN utemp[cid] : \E today \in Todays :
             templateobjects[cid][tid]
               = set_state(build_element(cid, NoneId, today), utemp[cid][tid], today).node
        /\ \A tid \in DOMAIN utemp[cid] :
             LET removed == remove_template(utemp, templateobjects, cid, tid)
             IN  /\ InOrder(removed.utemp[cid])
                      = RemoveAt(InOrder(utemp[cid]), int(tid) - 100)
                 /\ InOrder(removed.templateobjects[cid])
                      = RemoveAt(InOrder(templateobjects[cid]), int(tid) - 100)
                 /\ DOMAIN removed.utemp[cid] = {str(100 + i) : i \in 1..(n - 1)}
        /\ n = MaxTemplates =>
             \A tid \in DOMAIN utemp[cid], today \in Todays :
               add_template(utemp, templateobjects, utemp[cid][tid], today)
                 = [returned |-> False, utemp |-> utemp, templateobjects |-> templateobjects]

\* a full inventory of Recipe templates of which the first two differ,
\* beside a Cycle template: add_template returns False, and remove_template
\* of the first template files the second under the first id
C30_Witness ==
  /\ Cardinality(DOMAIN utemp["R"]) = MaxTemplates
  /\ utemp["R"][str(101)] # utemp["R"][str(102)]
  /\ utemp["C"] # EmptyDict
  /\ add_template(utemp, templateobjects, utemp["R"][str(101)], <<1, 1, 1>>).returned = False
  /\ remove_template(utemp, templateobjects, "R", str(101)).utemp["R"][str(101)]
       = utemp["R"][str(102)]

====
